---- MODULE Spec2Model ----
(***************************************************************************)
(* IndexList: a doubly-linked list whose nodes live in a vector.           *)
(* The model follows src/src/lib.rs, listindex.rs, listnode.rs and         *)
(* listends.rs.  A list value is a record                                  *)
(*   [elems, nodes, used, free, size]                                      *)
(* exactly as struct IndexList<T>.  A ListIndex is modelled by the raw     *)
(* value of its Option<NonZeroU32>: 0 is the null index, n + 1 is slot n.  *)
(* elems[at + 1] is the Rust elems[at]; Nil is Option::None in elems.      *)
(***************************************************************************)
EXTENDS Integers, Sequences, FiniteSets, TLC

\* ------------------------------------------------------------------ bounds
\* Largest capacity (number of slots) a list may grow to.
MaxCap == 3
\* Longest vector a second list is built from.
MaxOther == 2
\* move_index is called with steps in -MaxSteps..MaxSteps.
MaxSteps == 4
\* An exhausted iterator is called at most MaxIdle more times.
MaxIdle == 2

\* Element values (the type parameter T).  The list never inspects an element
\* except for equality in contains/index_of, so two distinguishable values
\* show every order and every mix-up of elements.
Vals == {1, 2}

\* ------------------------------------------------------- ListIndex (handle)
\* ListIndex::new() / default(): ndx = None
None == 0
\* Option<T>::None stored in elems
Nil == 0

\* ListIndex::from(usize) for slot numbers that fit (n + 1 does not wrap)
ListIndexFrom(n) == n + 1
\* ListIndex::get() of a non-null index: the zero-based slot number
IndexGet(index) == index - 1
is_some(index) == index # None
is_none(index) == index = None

\* --------------------------------------------------------- ListNode, ListEnds
NewNode == [next |-> None, prev |-> None]
NewEnds == [head |-> None, tail |-> None]
new_both(both) == [head |-> both, tail |-> both]
ends_is_empty(ends) == is_none(ends.head)

\* ------------------------------------------------------------------ IndexList
\* IndexList::new()
NewList == [elems |-> <<>>, nodes |-> <<>>, used |-> NewEnds, free |-> NewEnds, size |-> 0]

capacity(L) == Len(L.elems)
len(L) == L.size
is_empty(L) == ends_is_empty(L.used)
first_index(L) == L.used.head
last_index(L) == L.used.tail

\* Mutant of get: the raw one-based value is used as the slot number.
get_raw_index(L, index) ==
    IF is_some(index) /\ index < Len(L.elems)
    THEN L.elems[index + 1]
    ELSE Nil

\* get: elems.get(ndx)?.as_ref(), ndx = usize::MAX for the null index
get(L, index) ==
    IF is_some(index) /\ IndexGet(index) < Len(L.elems)
    THEN L.elems[IndexGet(index) + 1]
    ELSE Nil

\* get_mut: bounds test against capacity(), then elems[ndx].as_mut()
get_mut(L, index) ==
    IF is_some(index)
    THEN IF IndexGet(index) < capacity(L) THEN L.elems[IndexGet(index) + 1] ELSE Nil
    ELSE Nil

is_index_used(L, index) == get(L, index) # Nil

\* next_index: nodes.get(ndx) -> node.next, else null; null index -> first
next_index(L, index) ==
    IF is_some(index)
    THEN IF IndexGet(index) < Len(L.nodes) THEN L.nodes[IndexGet(index) + 1].next ELSE None
    ELSE first_index(L)

prev_index(L, index) ==
    IF is_some(index)
    THEN IF IndexGet(index) < Len(L.nodes) THEN L.nodes[IndexGet(index) + 1].prev ELSE None
    ELSE last_index(L)

\* move_index: (0..steps).for_each(index = next_index(index)), resp. prev_index
RECURSIVE move_next(_, _, _)
move_next(L, index, n) ==
    IF n = 0 THEN index ELSE move_next(L, next_index(L, index), n - 1)

RECURSIVE move_prev(_, _, _)
move_prev(L, index, n) ==
    IF n = 0 THEN index ELSE move_prev(L, prev_index(L, index), n - 1)

move_index(L, index, steps) ==
    IF steps > 0 THEN move_next(L, index, steps)
    ELSE IF steps < 0 THEN move_prev(L, index, -steps)
    ELSE index

is_used(L, at) == L.elems[at + 1] # Nil
is_free(L, at) == L.elems[at + 1] = Nil

\* ------------------------------------------------------ private link helpers
\* Helpers that return a value besides the new list give [l, r].

\* set_prev / set_next: replace the link of `index`, return the old link;
\* for the null index nothing changes and the null index is returned.
set_prev(L, index, new_prev) ==
    IF is_some(index)
    THEN [l |-> [L EXCEPT !.nodes[IndexGet(index) + 1].prev = new_prev],
          r |-> L.nodes[IndexGet(index) + 1].prev]
    ELSE [l |-> L, r |-> index]

set_next(L, index, new_next) ==
    IF is_some(index)
    THEN [l |-> [L EXCEPT !.nodes[IndexGet(index) + 1].next = new_next],
          r |-> L.nodes[IndexGet(index) + 1].next]
    ELSE [l |-> L, r |-> index]

linkin_tail(L, prev, this, next) ==
    IF is_none(next) THEN [L EXCEPT !.used.tail = this] ELSE L

linkin_head(L, prev, this, next) ==
    IF is_none(prev) THEN [L EXCEPT !.used.head = this] ELSE L

insert_elem_at_index(L, this, elem) ==
    IF is_some(this)
    THEN [L EXCEPT !.elems[IndexGet(this) + 1] = elem, !.size = L.size + 1]
    ELSE L

\* Mutant of linkout_node: the successor's prev link is not redirected.
linkout_node_one_sided(L, this) ==
    LET a == set_next(L, this, None)
        b == set_prev(a.l, this, None)
        next == a.r
        prev == b.r
        d == set_next(b.l, prev, next)
    IN  [l |-> d.l, prev |-> prev, next |-> next]

\* prev >< this >< next => prev >< next
linkout_node(L, this) ==
    LET a == set_next(L, this, None)
        b == set_prev(a.l, this, None)
        next == a.r
        prev == b.r
        c == set_prev(b.l, next, prev)
        d == set_next(c.l, prev, next)
    IN  [l |-> d.l, prev |-> prev, next |-> next]

\* Mutant of linkout_ends: the head is not moved when the first slot leaves.
linkout_ends_tail_only(ends, this, prev, next) ==
    IF is_none(next) THEN [ends EXCEPT !.tail = prev] ELSE ends

\* Mutant of linkout_ends: the tail is not moved when the last slot leaves.
linkout_ends_head_only(ends, this, prev, next) ==
    IF is_none(prev) THEN [ends EXCEPT !.head = next] ELSE ends

linkout_ends(ends, this, prev, next) ==
    LET e1 == IF is_none(next) THEN [ends EXCEPT !.tail = prev] ELSE ends
    IN  IF is_none(prev) THEN [e1 EXCEPT !.head = next] ELSE e1

linkout_used(L, this) ==
    LET o == linkout_node(L, this)
    IN  [o.l EXCEPT !.used = linkout_ends(o.l.used, this, o.prev, o.next)]

linkout_free(L, this) ==
    LET o == linkout_node(L, this)
    IN  [o.l EXCEPT !.free = linkout_ends(o.l.free, this, o.prev, o.next)]

\* Mutant of linkin_free: the slot is pushed at the head of the free list.
linkin_free_at_head(L, this) ==
    LET next == L.free.head
        a == set_prev(L, next, this).l
        b == set_next(a, this, next).l
    IN  IF ends_is_empty(b.free)
        THEN [b EXCEPT !.free = new_both(this)]
        ELSE [b EXCEPT !.free.head = this]

\* Mutant of linkin_free: the ends of an empty free list are not set.
linkin_free_keeps_ends(L, this) ==
    LET prev == L.free.tail
        a == set_next(L, prev, this).l
        b == set_prev(a, this, prev).l
    IN  IF ends_is_empty(b.free)
        THEN b
        ELSE [b EXCEPT !.free.tail = this]

linkin_free(L, this) ==
    LET prev == L.free.tail
        a == set_next(L, prev, this).l
        b == set_prev(a, this, prev).l
    IN  IF ends_is_empty(b.free)
        THEN [b EXCEPT !.free = new_both(this)]
        ELSE [b EXCEPT !.free.tail = this]

linkin_first(L, this) ==
    LET next == L.used.head
        a == set_prev(L, next, this).l
        b == set_next(a, this, next).l
    IN  IF ends_is_empty(b.used)
        THEN [b EXCEPT !.used = new_both(this)]
        ELSE [b EXCEPT !.used.head = this]

\* Mutant of linkin_last: the new slot's prev link is not set.
linkin_last_no_prev(L, this) ==
    LET prev == L.used.tail
        a == set_next(L, prev, this).l
    IN  IF ends_is_empty(a.used)
        THEN [a EXCEPT !.used = new_both(this)]
        ELSE [a EXCEPT !.used.tail = this]

linkin_last(L, this) ==
    LET prev == L.used.tail
        a == set_next(L, prev, this).l
        b == set_prev(a, this, prev).l
    IN  IF ends_is_empty(b.used)
        THEN [b EXCEPT !.used = new_both(this)]
        ELSE [b EXCEPT !.used.tail = this]

\* Mutant of linkin_this_before_that: the head of the used list is not moved.
linkin_this_before_that_no_head(L, this, that) ==
    LET a == set_prev(L, that, this)
        prev == a.r
        b == set_next(a.l, prev, this).l
        c == set_prev(b, this, prev).l
    IN  set_next(c, this, that).l

\* prev? >< that => prev? >< this >< that
linkin_this_before_that(L, this, that) ==
    LET a == set_prev(L, that, this)
        prev == a.r
        b == set_next(a.l, prev, this).l
        c == set_prev(b, this, prev).l
        d == set_next(c, this, that).l
    IN  linkin_head(d, prev, this, that)

\* that >< next? => that >< this >< next?
linkin_this_after_that(L, this, that) ==
    LET a == set_next(L, that, this)
        next == a.r
        b == set_prev(a.l, next, this).l
        c == set_prev(b, this, that).l
        d == set_next(c, this, next).l
    IN  linkin_tail(d, that, this, next)

\* The same two helpers in a build with debug assertions: [l, ok] where ok is
\* FALSE when a debug_assert! failed and l is the list at that point (the
\* operation panics there); with ok TRUE, l is the list the helper leaves.
linkin_this_before_that_debug(L, this, that) ==
    IF ~is_index_used(L, this) \/ ~is_index_used(L, that)
    THEN [l |-> L, ok |-> FALSE]
    ELSE LET a == set_prev(L, that, this)
             prev == a.r
             b == set_next(a.l, prev, this)
             old_next == b.r
             c == set_prev(b.l, this, prev).l
             d == set_next(c, this, that).l
         IN  IF is_some(old_next) /\ old_next # that
             THEN [l |-> b.l, ok |-> FALSE]
             ELSE IF is_none(prev)
                  THEN [l |-> [d EXCEPT !.used.head = this], ok |-> d.used.head = that]
                  ELSE [l |-> d, ok |-> TRUE]

linkin_this_after_that_debug(L, this, that) ==
    IF ~is_index_used(L, this) \/ ~is_index_used(L, that)
    THEN [l |-> L, ok |-> FALSE]
    ELSE LET a == set_next(L, that, this)
             next == a.r
             b == set_prev(a.l, next, this)
             old_prev == b.r
             c == set_prev(b.l, this, that).l
             d == set_next(c, this, next).l
         IN  IF is_some(old_prev) /\ old_prev # that
             THEN [l |-> b.l, ok |-> FALSE]
             ELSE IF is_none(next)
                  THEN [l |-> [d EXCEPT !.used.tail = this], ok |-> d.used.tail = that]
                  ELSE [l |-> d, ok |-> TRUE]

\* Mutant of new_node: a new slot is pushed although a free slot exists.
new_node_always_pushes(L, elem) ==
    [l |-> [L EXCEPT !.nodes = Append(L.nodes, NewNode),
                     !.elems = Append(L.elems, elem),
                     !.size = L.size + 1],
     r |-> ListIndexFrom(Len(L.nodes))]

\* new_node: recycle the head of the free list, else push a new slot
new_node(L, elem) ==
    LET reuse == L.free.head
    IN  IF is_some(reuse)
        THEN [l |-> linkout_free(insert_elem_at_index(L, reuse, elem), reuse), r |-> reuse]
        ELSE [l |-> [L EXCEPT !.nodes = Append(L.nodes, NewNode),
                              !.elems = Append(L.elems, elem),
                              !.size = L.size + 1],
              r |-> ListIndexFrom(Len(L.nodes))]

\* ---------------------------------------------------------- public mutators
insert_first(L, elem) ==
    LET n == new_node(L, elem)
    IN  [l |-> linkin_first(n.l, n.r), r |-> n.r]

\* Mutant of insert_last: the new slot is linked in at the head.
insert_last_links_first(L, elem) ==
    LET n == new_node(L, elem)
    IN  [l |-> linkin_first(n.l, n.r), r |-> n.r]

insert_last(L, elem) ==
    LET n == new_node(L, elem)
    IN  [l |-> linkin_last(n.l, n.r), r |-> n.r]

insert_before(L, index, elem) ==
    IF is_none(index)
    THEN insert_first(L, elem)
    ELSE LET n == new_node(L, elem)
         IN  [l |-> linkin_this_before_that(n.l, n.r, index), r |-> n.r]

insert_after(L, index, elem) ==
    IF is_none(index)
    THEN insert_last(L, elem)
    ELSE LET n == new_node(L, elem)
         IN  [l |-> linkin_this_after_that(n.l, n.r, index), r |-> n.r]

\* remove_elem_at_index indexes elems[at] without a bounds test: a non-null
\* index with at >= elems.len() panics (index out of bounds).
remove_elem_at_index_panics(L, this) ==
    is_some(this) /\ IndexGet(this) >= Len(L.elems)

\* remove_elem_at_index where it does not panic: take() the element
remove_elem_at_index(L, this) ==
    IF is_none(this)
    THEN [l |-> L, r |-> Nil]
    ELSE IF L.elems[IndexGet(this) + 1] = Nil
         THEN [l |-> L, r |-> Nil]
         ELSE [l |-> [L EXCEPT !.elems[IndexGet(this) + 1] = Nil, !.size = L.size - 1],
               r |-> L.elems[IndexGet(this) + 1]]

remove_panics(L, index) == remove_elem_at_index_panics(L, index)

\* Mutant of remove: the slot is unlinked but never put on the free list.
remove_leaks_slot(L, index) ==
    LET e == remove_elem_at_index(L, index)
    IN  IF e.r # Nil
        THEN [l |-> linkout_used(e.l, index), r |-> e.r]
        ELSE e

\* Mutant of remove: the slot is relinked whether or not an element was taken.
remove_always_relinks(L, index) ==
    LET e == remove_elem_at_index(L, index)
    IN  [l |-> linkin_free(linkout_used(e.l, index), index), r |-> e.r]

remove(L, index) ==
    LET e == remove_elem_at_index(L, index)
    IN  IF e.r # Nil
        THEN [l |-> linkin_free(linkout_used(e.l, index), index), r |-> e.r]
        ELSE e

remove_first(L) == remove(L, first_index(L))
remove_last(L) == remove(L, last_index(L))

\* Mutant of shift_index_before: the slot is linked in after that.
shift_index_before_links_after(L, this, that) ==
    LET valid == is_index_used(L, this) /\ is_index_used(L, that) /\ this # that
    IN  [l |-> IF valid THEN linkin_this_after_that(linkout_used(L, this), this, that) ELSE L,
         r |-> valid]

shift_index_before(L, this, that) ==
    LET valid == is_index_used(L, this) /\ is_index_used(L, that) /\ this # that
    IN  [l |-> IF valid THEN linkin_this_before_that(linkout_used(L, this), this, that) ELSE L,
         r |-> valid]

shift_index_after(L, this, that) ==
    LET valid == is_index_used(L, this) /\ is_index_used(L, that) /\ this # that
    IN  [l |-> IF valid THEN linkin_this_after_that(linkout_used(L, this), this, that) ELSE L,
         r |-> valid]

\* Mutant of shift_index_to_front: the element is removed and inserted again,
\* which may put it in another slot.
shift_index_to_front_reinserts(L, this) ==
    LET valid == is_index_used(L, this)
        e == remove(L, this)
    IN  [l |-> IF valid THEN insert_first(e.l, e.r).l ELSE L, r |-> valid]

\* Mutant of shift_index_to_front: the slot is linked in at the tail.
shift_index_to_front_links_last(L, this) ==
    LET valid == is_index_used(L, this)
    IN  [l |-> IF valid THEN linkin_last(linkout_used(L, this), this) ELSE L, r |-> valid]

shift_index_to_front(L, this) ==
    LET valid == is_index_used(L, this)
    IN  [l |-> IF valid THEN linkin_first(linkout_used(L, this), this) ELSE L, r |-> valid]

\* Mutant of shift_index_to_back: the index is tested for its range only, the
\* slot of a freed index is linked out and linked in again.
shift_index_to_back_unchecked(L, this) ==
    LET valid == is_some(this) /\ IndexGet(this) < capacity(L)
    IN  [l |-> IF valid THEN linkin_last(linkout_used(L, this), this) ELSE L, r |-> valid]

shift_index_to_back(L, this) ==
    LET valid == is_index_used(L, this)
    IN  [l |-> IF valid THEN linkin_last(linkout_used(L, this), this) ELSE L, r |-> valid]

\* Mutant of swap_data: the element at there is copied to here, not exchanged.
swap_data_copies(L, here, there) ==
    [L EXCEPT !.elems[here + 1] = L.elems[there + 1]]

\* swap_data: Vec::swap(here, there)
swap_data(L, here, there) ==
    [L EXCEPT !.elems[here + 1] = L.elems[there + 1],
              !.elems[there + 1] = L.elems[here + 1]]

\* Vec::swap panics when either position is out of bounds
swap_index_panics(L, this, that) ==
    /\ is_some(this) /\ is_some(that)
    /\ (IndexGet(this) >= Len(L.elems) \/ IndexGet(that) >= Len(L.elems))

swap_index(L, this, that) ==
    IF is_some(this) /\ is_some(that)
    THEN swap_data(L, IndexGet(this), IndexGet(that))
    ELSE L

\* Mutant of clear: the links and the count are reset, the elements are kept.
clear_keeps_elems(L) ==
    [elems |-> L.elems, nodes |-> L.nodes, used |-> new_both(None), free |-> new_both(None),
     size |-> 0]

clear(L) ==
    [elems |-> <<>>, nodes |-> <<>>, used |-> new_both(None), free |-> new_both(None),
     size |-> 0]

\* trim_safe: (len..capacity).rev().take_while(is_free), highest slot first
RECURSIVE trim_safe_removed(_, _)
trim_safe_removed(L, i) ==
    IF i >= len(L) /\ i < capacity(L) /\ is_free(L, i)
    THEN <<i>> \o trim_safe_removed(L, i - 1)
    ELSE <<>>

RECURSIVE linkout_free_each(_, _)
linkout_free_each(L, removed) ==
    IF removed = <<>>
    THEN L
    ELSE linkout_free_each(linkout_free(L, ListIndexFrom(Head(removed))), Tail(removed))

truncate(s, n) == IF n < Len(s) THEN SubSeq(s, 1, n) ELSE s

\* Mutant of trim_safe: the vectors are cut down to len() slots, occupied or not.
trim_safe_cuts_to_len(L) ==
    LET removed == trim_safe_removed(L, capacity(L) - 1)
        a == linkout_free_each(L, removed)
    IN  [a EXCEPT !.nodes = truncate(a.nodes, len(L)), !.elems = truncate(a.elems, len(L))]

\* Mutant of trim_safe: only the last slot is taken off, when it is free.
trim_safe_one_slot(L) ==
    LET run == trim_safe_removed(L, capacity(L) - 1)
        removed == IF run = <<>> THEN <<>> ELSE <<Head(run)>>
        a == linkout_free_each(L, removed)
        left == capacity(a) - Len(removed)
    IN  IF removed # <<>>
        THEN [a EXCEPT !.nodes = truncate(a.nodes, left), !.elems = truncate(a.elems, left)]
        ELSE a

trim_safe(L) ==
    LET removed == trim_safe_removed(L, capacity(L) - 1)
        a == linkout_free_each(L, removed)
        left == capacity(a) - Len(removed)
    IN  IF removed # <<>>
        THEN [a EXCEPT !.nodes = truncate(a.nodes, left), !.elems = truncate(a.elems, left)]
        ELSE a

\* Mutant of replace_dest_with_source: the slot is relinked but the element is
\* dropped, not moved.
replace_dest_with_source_drops(L, src, dst) ==
    LET a == linkout_free(L, ListIndexFrom(dst))
        next == a.nodes[src + 1].next
        prev == a.nodes[src + 1].prev
        b == linkout_used(a, ListIndexFrom(src))
        c == [b EXCEPT !.elems[src + 1] = Nil]
        this == ListIndexFrom(dst)
    IN  IF is_some(next) THEN linkin_this_before_that(c, this, next)
        ELSE IF is_some(prev) THEN linkin_this_after_that(c, this, prev)
        ELSE linkin_first(c, this)

\* Mutant of replace_dest_with_source: the moved element is linked in at the
\* front of the list.
replace_dest_with_source_at_front(L, src, dst) ==
    LET a == linkout_free(L, ListIndexFrom(dst))
        b == linkout_used(a, ListIndexFrom(src))
        c == [b EXCEPT !.elems[dst + 1] = b.elems[src + 1], !.elems[src + 1] = Nil]
    IN  linkin_first(c, ListIndexFrom(dst))

\* replace_dest_with_source: move the element in slot src to the free slot dst
replace_dest_with_source(L, src, dst) ==
    LET a == linkout_free(L, ListIndexFrom(dst))
        next == a.nodes[src + 1].next
        prev == a.nodes[src + 1].prev
        b == linkout_used(a, ListIndexFrom(src))
        c == [b EXCEPT !.elems[dst + 1] = b.elems[src + 1], !.elems[src + 1] = Nil]
        this == ListIndexFrom(dst)
    IN  IF is_some(next) THEN linkin_this_before_that(c, this, next)
        ELSE IF is_some(prev) THEN linkin_this_after_that(c, this, prev)
        ELSE linkin_first(c, this)

\* slot numbers lo..hi-1 in ascending order
SlotSeq(lo, hi) == [i \in 1..(hi - lo) |-> lo + i - 1]

\* trim_swap's dst: free slots below `need`, ascending
trim_swap_dst(L, need) ==
    LET free_slot(n) == L.elems[n + 1] = Nil /\ n < need
    IN  SelectSeq(SlotSeq(0, need), free_slot)

\* Mutant of trim_swap_src: every used slot is a source, those below `need` too.
trim_swap_src_all(L, need) ==
    LET used_slot(n) == L.elems[n + 1] # Nil
    IN  SelectSeq(SlotSeq(0, Len(L.elems)), used_slot)

\* trim_swap's src: used slots at or above `need`, ascending
trim_swap_src(L, need) ==
    LET used_slot(n) == L.elems[n + 1] # Nil
    IN  SelectSeq(SlotSeq(need, Len(L.elems)), used_slot)

RECURSIVE replace_each(_, _, _)
replace_each(L, src, dst) ==
    IF src = <<>> \/ dst = <<>>
    THEN L
    ELSE replace_each(replace_dest_with_source(L, Head(src), Head(dst)), Tail(src), Tail(dst))

\* self.elems[..need] panics when need > elems.len()
trim_swap_panics(L) == L.size > Len(L.elems)

trim_swap(L) ==
    LET need == L.size
        a == replace_each(L, trim_swap_src(L, need), trim_swap_dst(L, need))
    IN  [a EXCEPT !.free = new_both(None),
                  !.elems = truncate(a.elems, need),
                  !.nodes = truncate(a.nodes, need)]

\* append / prepend: [l, o] are self and other after the loop
RECURSIVE append(_, _)
append(L, O) ==
    LET e == remove_first(O)
    IN  IF e.r # Nil THEN append(insert_last(L, e.r).l, e.l) ELSE [l |-> L, o |-> e.l]

\* Mutant of prepend: the elements of other are placed after those of self.
prepend_places_after(L, O) == append(L, O)

RECURSIVE prepend(_, _)
prepend(L, O) ==
    LET e == remove_last(O)
    IN  IF e.r # Nil THEN prepend(insert_first(L, e.r).l, e.l) ELSE [l |-> L, o |-> e.l]

\* split: [l, r] are self and the returned list; list is the list built so far
RECURSIVE split_loop(_, _, _)
split_loop(L, list, index) ==
    IF is_index_used(L, index)
    THEN LET e == remove_last(L)
         IN  split_loop(e.l, insert_first(list, e.r).l, index)
    ELSE [l |-> L, r |-> list]

\* Mutant of split: only the last element is moved to the new list.
split_takes_last(L, index) ==
    IF is_index_used(L, index) THEN split_loop(L, NewList, last_index(L)) ELSE [l |-> L, r |-> NewList]

\* Mutant of split: the index is tested for its range only; for the index of a
\* freed slot the last element is moved.
split_range_only(L, index) ==
    IF is_index_used(L, index)
    THEN split_loop(L, NewList, index)
    ELSE IF is_some(index) /\ IndexGet(index) < capacity(L) /\ is_some(last_index(L))
         THEN split_loop(L, NewList, last_index(L))
         ELSE [l |-> L, r |-> NewList]

split(L, index) == split_loop(L, NewList, index)

\* IndexList::from(&mut vec): insert_last of each element in order
RECURSIVE from_vec_loop(_, _)
from_vec_loop(list, vec) ==
    IF vec = <<>> THEN list ELSE from_vec_loop(insert_last(list, Head(vec)).l, Tail(vec))

from_vec(vec) == from_vec_loop(NewList, vec)

\* ------------------------------------------------------------------ ListIter
\* A ListIter is [kind, start, end, len]; next and next_back give [i, r]: the
\* iterator after the call and the item returned (Nil for None).
\* IndexList::iter names the two cursors next and prev and sets no len, while
\* the ListIter it builds declares start, end and len: the cursors are taken
\* as start and end, and len as the length of the list.
iter(L) ==
    [kind |-> "iter", start |-> first_index(L), end |-> last_index(L), len |-> len(L)]

\* Mutant of set_empty: the cursors are reset, the count is not.
set_empty_keeps_len(I) == [I EXCEPT !.start = None, !.end = None]

set_empty(I) == [I EXCEPT !.start = None, !.end = None, !.len = 0]

\* Mutant of ListIter_next: the cursor always advances, also when it has met
\* the other one.
ListIter_next_always_advances(L, I) ==
    LET item == get(L, I.start)
    IN  IF item = Nil
        THEN [i |-> I, r |-> Nil]
        ELSE [i |-> [I EXCEPT !.start = next_index(L, I.start), !.len = I.len - 1],
              r |-> item]

ListIter_next(L, I) ==
    LET item == get(L, I.start)
    IN  IF item = Nil
        THEN [i |-> I, r |-> Nil]
        ELSE [i |-> IF I.start = I.end
                    THEN set_empty(I)
                    ELSE [I EXCEPT !.start = next_index(L, I.start), !.len = I.len - 1],
              r |-> item]

ListIter_next_back(L, I) ==
    LET item == get(L, I.end)
    IN  IF item = Nil
        THEN [i |-> I, r |-> Nil]
        ELSE [i |-> IF I.start = I.end
                    THEN set_empty(I)
                    ELSE [I EXCEPT !.end = prev_index(L, I.end), !.len = I.len - 1],
              r |-> item]

\* --------------------------------------------------------------- ListIterMut
\* A ListIterMut is [kind, start, end, len] beside the elems and nodes of the
\* list it borrows.  IndexList::iter_mut is not part of the sources; as for
\* iter, the cursors start at the two ends and len at the length of the list.
iter_mut(L) ==
    [kind |-> "iter_mut", start |-> first_index(L), end |-> last_index(L), len |-> len(L)]

ListIterMut_set_empty(I) == [I EXCEPT !.start = None, !.end = None, !.len = 0]

\* elems.add(idx) points outside the vector
ListIterMut_out_of_bounds(L, index) == is_some(index) /\ IndexGet(index) >= Len(L.elems)

\* next and next_back give [i, r]: the iterator after the call and the element
\* the reference handed out points to (Nil: nothing is handed out when the
\* cursor is null, and as_mut().unwrap() panics when the slot is empty)
ListIterMut_next(L, I) ==
    IF is_none(I.start)
    THEN [i |-> I, r |-> Nil]
    ELSE LET idx == IndexGet(I.start)
         IN  [i |-> IF I.start = I.end
                    THEN ListIterMut_set_empty(I)
                    ELSE [I EXCEPT !.start = L.nodes[idx + 1].next, !.len = I.len - 1],
              r |-> L.elems[idx + 1]]

ListIterMut_next_back(L, I) ==
    IF is_none(I.end)
    THEN [i |-> I, r |-> Nil]
    ELSE LET idx == IndexGet(I.end)
         IN  [i |-> IF I.start = I.end
                    THEN ListIterMut_set_empty(I)
                    ELSE [I EXCEPT !.end = L.nodes[idx + 1].prev, !.len = I.len - 1],
              r |-> L.elems[idx + 1]]

\* ------------------------------------------------------------- ListDrainIter
\* A ListDrainIter holds the list only; next and next_back give [l, r].
drain_iter(L) == [kind |-> "drain", start |-> None, end |-> None, len |-> 0]

\* Mutant of ListDrainIter_next: the element is taken from the back.
ListDrainIter_next_takes_last(L) == remove_last(L)

ListDrainIter_next(L) == remove_first(L)

ListDrainIter_next_back(L) == remove_last(L)

\* Mutant of ListDrainIter_drop: the list is left as the iterator found it.
ListDrainIter_drop_keeps(L) == L

\* Drop for ListDrainIter: what is left in the list is cleared
ListDrainIter_drop(L) == clear(L)


\* ================================================================ the machine
\* list  : the IndexList under test
\* other : a second IndexList (argument of append/prepend, result of split);
\*         it lives from its creation until it is dropped, and the program
\*         works on `list` again once it is dropped (other = NewList)
\* last  : the last operation called, its arguments and what it returned
\* fault : "none", or "panic" once an operation has panicked
VARIABLES list, other, last, fault

\* it: the iterator that borrows the list, if any.  hist: what the calls on that
\* iterator have returned so far (a history kept for the claims, not program state).
VARIABLES it, hist

vars == <<list, other, last, fault, it, hist>>

\* no iterator exists
NoIter == [kind |-> "none", start |-> None, end |-> None, len |-> 0]
NoHist == [orig |-> <<>>, front |-> <<>>, back |-> <<>>, idle |-> 0]

Call(op, a, b, ret) == [op |-> op, a |-> a, b |-> b, ret |-> ret]

\* indexes of the slots that hold an element
Occupied(L) == {h \in 1..capacity(L) : is_index_used(L, h)}
\* the null index or an occupied one
Legit(L) == {None} \cup Occupied(L)
\* every index value tried by a careless caller: null, in range, one and two past the end
AnyIndex == 0..(MaxCap + 2)

\* an insertion keeps the capacity within the bound
CanInsert(L) == is_some(L.free.head) \/ capacity(L) < MaxCap

\* vectors of at most MaxOther values
Vecs == UNION {[1..n -> Vals] : n \in 0..MaxOther}

Init ==
    /\ list = NewList
    /\ other = NewList
    /\ last = Call("new", None, None, Nil)
    /\ fault = "none"
    /\ it = NoIter
    /\ hist = NoHist

\* no panic so far
Alive == fault = "none"
\* no panic so far, no second list alive and no iterator borrowing the list
Running == Alive /\ other = NewList /\ it = NoIter

InsertFirst ==
    \E v \in Vals :
        /\ Running /\ CanInsert(list)
        /\ LET res == insert_first(list, v)
           IN  /\ list' = res.l
               /\ UNCHANGED <<it, hist>>
               /\ last' = Call("insert_first", None, v, res.r)
        /\ UNCHANGED <<other, fault>>

InsertLast ==
    \E v \in Vals :
        /\ Running /\ CanInsert(list)
        /\ LET res == insert_last(list, v)
           IN  /\ list' = res.l
               /\ UNCHANGED <<it, hist>>
               /\ last' = Call("insert_last", None, v, res.r)
        /\ UNCHANGED <<other, fault>>

InsertBefore ==
    \E h \in Legit(list), v \in Vals :
        /\ Running /\ CanInsert(list)
        /\ LET res == insert_before(list, h, v)
           IN  /\ list' = res.l
               /\ UNCHANGED <<it, hist>>
               /\ last' = Call("insert_before", h, v, res.r)
        /\ UNCHANGED <<other, fault>>

InsertAfter ==
    \E h \in Legit(list), v \in Vals :
        /\ Running /\ CanInsert(list)
        /\ LET res == insert_after(list, h, v)
           IN  /\ list' = res.l
               /\ UNCHANGED <<it, hist>>
               /\ last' = Call("insert_after", h, v, res.r)
        /\ UNCHANGED <<other, fault>>

Remove ==
    \E h \in Legit(list) :
        /\ Running
        /\ LET res == remove(list, h)
           IN  /\ list' = res.l
               /\ UNCHANGED <<it, hist>>
               /\ last' = Call("remove", h, None, res.r)
        /\ UNCHANGED <<other, fault>>

RemoveFirst ==
    /\ Running
    /\ LET res == remove_first(list)
       IN  /\ list' = res.l
           /\ UNCHANGED <<it, hist>>
           /\ last' = Call("remove_first", None, None, res.r)
    /\ UNCHANGED <<other, fault>>

RemoveLast ==
    /\ Running
    /\ LET res == remove_last(list)
       IN  /\ list' = res.l
           /\ UNCHANGED <<it, hist>>
           /\ last' = Call("remove_last", None, None, res.r)
    /\ UNCHANGED <<other, fault>>

ShiftIndexBefore ==
    \E this \in Legit(list), that \in Legit(list) :
        /\ Running
        /\ LET res == shift_index_before(list, this, that)
           IN  /\ list' = res.l
               /\ UNCHANGED <<it, hist>>
               /\ last' = Call("shift_index_before", this, that, res.r)
        /\ UNCHANGED <<other, fault>>

ShiftIndexAfter ==
    \E this \in Legit(list), that \in Legit(list) :
        /\ Running
        /\ LET res == shift_index_after(list, this, that)
           IN  /\ list' = res.l
               /\ UNCHANGED <<it, hist>>
               /\ last' = Call("shift_index_after", this, that, res.r)
        /\ UNCHANGED <<other, fault>>

ShiftIndexToFront ==
    \E this \in Legit(list) :
        /\ Running
        /\ LET res == shift_index_to_front(list, this)
           IN  /\ list' = res.l
               /\ UNCHANGED <<it, hist>>
               /\ last' = Call("shift_index_to_front", this, None, res.r)
        /\ UNCHANGED <<other, fault>>

ShiftIndexToBack ==
    \E this \in Legit(list) :
        /\ Running
        /\ LET res == shift_index_to_back(list, this)
           IN  /\ list' = res.l
               /\ UNCHANGED <<it, hist>>
               /\ last' = Call("shift_index_to_back", this, None, res.r)
        /\ UNCHANGED <<other, fault>>

SwapIndex ==
    \E this \in Legit(list), that \in Legit(list) :
        /\ Running
        /\ list' = swap_index(list, this, that)
        /\ UNCHANGED <<it, hist>>
        /\ last' = Call("swap_index", this, that, Nil)
        /\ UNCHANGED <<other, fault>>

TrimSafe ==
    /\ Running
    /\ list' = trim_safe(list)
    /\ UNCHANGED <<it, hist>>
    /\ last' = Call("trim_safe", None, None, Nil)
    /\ UNCHANGED <<other, fault>>

TrimSwap ==
    /\ Running
    /\ list' = trim_swap(list)
    /\ UNCHANGED <<it, hist>>
    /\ last' = Call("trim_swap", None, Len(trim_swap_src(list, list.size)), Nil)
    /\ UNCHANGED <<other, fault>>

Clear ==
    /\ Running
    /\ list' = clear(list)
    /\ UNCHANGED <<it, hist>>
    /\ last' = Call("clear", None, None, Nil)
    /\ UNCHANGED <<other, fault>>

\* other = IndexList::from(&mut vec)
OtherFrom ==
    \E vec \in Vecs :
        /\ Running /\ vec # <<>>
        /\ other' = from_vec(vec)
        /\ UNCHANGED <<it, hist>>
        /\ last' = Call("from", None, None, Nil)
        /\ UNCHANGED <<list, fault>>

AppendOther ==
    /\ Alive
    /\ len(list) + len(other) <= MaxCap
    /\ LET res == append(list, other)
       IN  list' = res.l /\ other' = res.o
    /\ UNCHANGED <<it, hist>>
    /\ last' = Call("append", None, None, Nil)
    /\ UNCHANGED fault

PrependOther ==
    /\ Alive
    /\ len(list) + len(other) <= MaxCap
    /\ LET res == prepend(list, other)
       IN  list' = res.l /\ other' = res.o
    /\ UNCHANGED <<it, hist>>
    /\ last' = Call("prepend", None, None, Nil)
    /\ UNCHANGED fault

\* other = list.split(h)
Split ==
    \E h \in Legit(list) :
        /\ Running
        /\ LET res == split(list, h)
           IN  list' = res.l /\ other' = res.r
        /\ UNCHANGED <<it, hist>>
        /\ last' = Call("split", h, None, Nil)
        /\ UNCHANGED fault

\* the second list goes out of scope
DropOther ==
    /\ Alive /\ other # NewList
    /\ other' = NewList
    /\ UNCHANGED <<it, hist>>
    /\ last' = Call("drop", None, None, Nil)
    /\ UNCHANGED <<list, fault>>

Next ==
    \/ InsertFirst \/ InsertLast \/ InsertBefore \/ InsertAfter
    \/ Remove \/ RemoveFirst \/ RemoveLast
    \/ ShiftIndexBefore \/ ShiftIndexAfter \/ ShiftIndexToFront \/ ShiftIndexToBack
    \/ SwapIndex \/ TrimSafe \/ TrimSwap \/ Clear
    \/ OtherFrom \/ AppendOther \/ PrependOther \/ Split \/ DropOther

Spec == Init /\ [][Next]_vars

\* ------------------------------------------- lookups and careless callers
\* Operations called with any index value: null, occupied, stale (in range but
\* on the free list) or out of range.

\* an index that is neither null nor occupied
Stale(L) == AnyIndex \ Legit(L)

RemoveStale ==
    \E h \in Stale(list) :
        /\ Running
        /\ IF remove_panics(list, h)
           THEN /\ fault' = "panic"
                /\ UNCHANGED <<it, hist>>
                /\ last' = Call("remove", h, None, Nil)
                /\ UNCHANGED list
           ELSE /\ LET res == remove(list, h)
                   IN  /\ list' = res.l
                       /\ UNCHANGED <<it, hist>>
                       /\ last' = Call("remove", h, None, res.r)
                /\ UNCHANGED fault
        /\ UNCHANGED other

Get ==
    \E h \in AnyIndex :
        /\ Running
        /\ UNCHANGED <<it, hist>>
        /\ last' = Call("get", h, None, get(list, h))
        /\ UNCHANGED <<list, other, fault>>

GetMut ==
    \E h \in AnyIndex :
        /\ Running
        /\ UNCHANGED <<it, hist>>
        /\ last' = Call("get_mut", h, None, get_mut(list, h))
        /\ UNCHANGED <<list, other, fault>>

IsIndexUsed ==
    \E h \in AnyIndex :
        /\ Running
        /\ UNCHANGED <<it, hist>>
        /\ last' = Call("is_index_used", h, None, is_index_used(list, h))
        /\ UNCHANGED <<list, other, fault>>

NextIndex ==
    \E h \in AnyIndex :
        /\ Running
        /\ UNCHANGED <<it, hist>>
        /\ last' = Call("next_index", h, None, next_index(list, h))
        /\ UNCHANGED <<list, other, fault>>

PrevIndex ==
    \E h \in AnyIndex :
        /\ Running
        /\ UNCHANGED <<it, hist>>
        /\ last' = Call("prev_index", h, None, prev_index(list, h))
        /\ UNCHANGED <<list, other, fault>>

NextAnyIndex ==
    \/ InsertFirst \/ InsertLast \/ InsertBefore \/ InsertAfter
    \/ Remove \/ TrimSafe \/ Clear
    \/ RemoveStale \/ Get \/ GetMut \/ IsIndexUsed \/ NextIndex \/ PrevIndex

SpecAnyIndex == Init /\ [][NextAnyIndex]_vars

\* =================================================================== claims
\* Walks used by the claims.  A walk follows next_index / prev_index from a
\* starting index until the null index; it gives up after capacity + 1 steps,
\* so a walk longer than the capacity shows a cycle.
RECURSIVE WalkNext(_, _, _)
WalkNext(L, h, fuel) ==
    IF is_none(h) \/ fuel = 0 THEN <<>> ELSE <<h>> \o WalkNext(L, next_index(L, h), fuel - 1)

RECURSIVE WalkPrev(_, _, _)
WalkPrev(L, h, fuel) ==
    IF is_none(h) \/ fuel = 0 THEN <<>> ELSE <<h>> \o WalkPrev(L, prev_index(L, h), fuel - 1)

UsedWalk(L) == WalkNext(L, L.used.head, capacity(L) + 1)
FreeWalk(L) == WalkNext(L, L.free.head, capacity(L) + 1)
UsedWalkBack(L) == WalkPrev(L, L.used.tail, capacity(L) + 1)

SeqSet(s) == {s[i] : i \in DOMAIN s}
Reverse(s) == [i \in 1..Len(s) |-> s[Len(s) + 1 - i]]
Without(s, x) == LET keep(y) == y # x IN SelectSeq(s, keep)
\* the elements in traversal order
Values(L) == LET w == UsedWalk(L) IN [i \in 1..Len(w) |-> get(L, w[i])]
\* every index of a slot of the list
Slots(L) == 1..capacity(L)

\* The used list and the free list of L hold every slot of [0, capacity) exactly
\* once, and size = capacity - (number of slots on the free list).
Partition(L) ==
    LET u == UsedWalk(L)
        f == FreeWalk(L)
    IN  /\ Len(u) + Len(f) = capacity(L)
        /\ SeqSet(u) \cup SeqSet(f) = Slots(L)
        /\ len(L) = capacity(L) - Len(f)

\* C1: after every sequence of public operations called with null or occupied
\* indexes, the used list and the free list together contain every slot of
\* [0, capacity()) exactly once, and len() = capacity() - (slots on the free list).
C1_UsedFreePartition == Partition(list) /\ Partition(other)

\* C1 witness: an element was removed while others stay, so both the used list
\* and the free list are populated.
C1_Witness ==
    /\ last.op = "remove" /\ last.ret # Nil
    /\ Len(UsedWalk(list)) = 2 /\ Len(FreeWalk(list)) = 1

\* The links of slot s agree with its neighbours' links.
LinksAgree(L, s) ==
    LET n == L.nodes[IndexGet(s) + 1].next
        p == L.nodes[IndexGet(s) + 1].prev
    IN  /\ is_some(n) => (n \in Slots(L) /\ L.nodes[IndexGet(n) + 1].prev = s)
        /\ is_some(p) => (p \in Slots(L) /\ L.nodes[IndexGet(p) + 1].next = s)

EndsAgree(L, ends) ==
    /\ is_some(ends.head) => (ends.head \in Slots(L) /\ prev_index(L, ends.head) = None)
    /\ is_some(ends.tail) => (ends.tail \in Slots(L) /\ next_index(L, ends.tail) = None)

WellLinked(L) ==
    /\ \A s \in SeqSet(UsedWalk(L)) \cup SeqSet(FreeWalk(L)) : s \in Slots(L) /\ LinksAgree(L, s)
    /\ EndsAgree(L, L.used)
    /\ EndsAgree(L, L.free)

\* C2: for each slot s on the used or the free list, next(s) = n # none implies
\* prev(n) = s and prev(s) = p # none implies next(p) = s; the head of each list
\* has prev = none and the tail of each list has next = none.
C2_LinksMutuallyConsistent == WellLinked(list) /\ WellLinked(other)

\* C2 witness: a slot in the middle of the used list (both links set) while the
\* free list has a head and a different tail.
C2_Witness ==
    /\ \E s \in Occupied(list) : is_some(next_index(list, s)) /\ is_some(prev_index(list, s))
    /\ Len(UsedWalk(list)) = 3
    /\ last.op = "shift_index_before" /\ last.ret = TRUE

\* A slot holds an element iff the walk from first_index() reaches it, and holds
\* nothing iff the walk from the free list's head reaches it.
OccupiedIffUsed(L) ==
    \A h \in Slots(L) :
        /\ is_index_used(L, h) <=> h \in SeqSet(UsedWalk(L))
        /\ (~is_index_used(L, h)) <=> h \in SeqSet(FreeWalk(L))

\* C3: a slot holds an element (get returns a value) iff it is reachable from
\* first_index() by next links, and holds nothing iff it is reachable from the
\* free list's head.
C3_OccupiedIffReachable == OccupiedIffUsed(list) /\ OccupiedIffUsed(other)

\* C3 witness: a removed slot was recycled by an insertion while another slot is
\* still free.
C3_Witness ==
    /\ last.op = "insert_last" /\ last.ret # ListIndexFrom(capacity(list) - 1)
    /\ Len(FreeWalk(list)) = 1 /\ Len(UsedWalk(list)) = 2

\* C4: len() <= capacity(); the walk from first_index() with next_index visits
\* exactly len() occupied slots and then reaches none, the walk from last_index()
\* with prev_index does the same, and the backward walk is the reverse of the
\* forward walk.
C4_WalksVisitLenInReverse ==
    LET f == UsedWalk(list)
        b == UsedWalkBack(list)
    IN  /\ len(list) <= capacity(list)
        /\ Len(f) = len(list)
        /\ Len(b) = len(list)
        /\ \A i \in DOMAIN f : is_index_used(list, f[i])
        /\ \A i \in DOMAIN b : is_index_used(list, b[i])
        /\ b = Reverse(f)

\* C4 witness: three elements whose traversal order differs from the slot order,
\* reached by an insertion in the middle.
C4_Witness ==
    /\ last.op = "insert_before" /\ is_some(last.a)
    /\ len(list) = 3
    /\ UsedWalk(list) # <<1, 2, 3>> /\ UsedWalk(list) # <<3, 2, 1>>

\* Operations that must leave every other element where its index finds it.
FrameOps ==
    {"insert_first", "insert_last", "insert_before", "insert_after",
     "remove", "remove_first", "remove_last",
     "shift_index_before", "shift_index_after",
     "shift_index_to_front", "shift_index_to_back", "trim_safe"}

\* the index whose element the step from L by the call c takes out, if any
Taken(L, c) ==
    CASE c.op = "remove" -> c.a
      [] c.op = "remove_first" -> first_index(L)
      [] c.op = "remove_last" -> last_index(L)
      [] OTHER -> None

\* C5: for every occupied index h, get(h) returns the same element after
\* insert_first/last/before/after, remove of another index, remove_first /
\* remove_last when h is not the first / last element, shift_index_before /
\* after / to_front / to_back and trim_safe as before it.
C5_OtherHandlesKeepElement ==
    [][last'.op \in FrameOps =>
        \A h \in Occupied(list) :
            h # Taken(list, last') => get(list', h) = get(list, h)]_vars

\* C5 witness: an element moved to the front of three, so its position changed
\* while two other elements stayed occupied.
C5_Witness ==
    /\ last.op = "shift_index_to_front" /\ last.ret = TRUE
    /\ len(list) = 3 /\ first_index(list) = last.a
    /\ get(list, 1) # get(list, 2)

\* C6: remove(h) on an occupied index h returns the element stored at h,
\* decreases len() by 1, leaves capacity() unchanged, makes h unoccupied, and
\* leaves the remaining elements in their previous traversal order with the
\* former predecessor and successor of h adjacent.
C6_RemoveOccupied ==
    [][(last'.op = "remove" /\ last'.a \in Occupied(list)) =>
        LET h == last'.a
            pred == prev_index(list, h)
            succ == next_index(list, h)
        IN  /\ last'.ret = get(list, h)
            /\ len(list') = len(list) - 1
            /\ capacity(list') = capacity(list)
            /\ ~is_index_used(list', h)
            /\ UsedWalk(list') = Without(UsedWalk(list), h)
            /\ \A k \in Occupied(list) \ {h} : get(list', k) = get(list, k)
            /\ next_index(list', pred) = succ
            /\ prev_index(list', succ) = pred]_vars

\* C6 witness: the middle element of three was removed.
C6_Witness ==
    /\ last.op = "remove" /\ last.ret # Nil
    /\ len(list) = 2 /\ capacity(list) = 3
    /\ ~is_index_used(list, last.a)
    /\ last.a \notin {1, 3} /\ UsedWalk(list) = <<1, 3>>

\* C7: remove(h) with the null index or an in-range index whose slot is
\* unoccupied returns nothing and leaves the whole list state unchanged.
C7_RemoveNullOrStaleIsNoOp ==
    [][(/\ last'.op = "remove"
        /\ \/ is_none(last'.a)
           \/ (last'.a \in Slots(list) /\ ~is_index_used(list, last'.a))) =>
        /\ last'.ret = Nil
        /\ list' = list
        /\ fault' = "none"]_vars

\* C7 witness: a second remove of an index that is already on the free list,
\* while another element is in the list.
C7_Witness ==
    /\ last.op = "remove" /\ last.ret = Nil /\ fault = "none"
    /\ last.a \in Slots(list) /\ last.a \in SeqSet(FreeWalk(list))
    /\ len(list) >= 1

\* C8: remove(h) with a non-null index whose slot number is >= capacity()
\* returns nothing without faulting and leaves the list state unchanged.
C8_RemoveOutOfRangeIsNoOp ==
    [][(/\ last'.op = "remove"
        /\ is_some(last'.a) /\ IndexGet(last'.a) >= capacity(list)) =>
        /\ last'.ret = Nil
        /\ list' = list
        /\ fault' = "none"]_vars

\* an index that finds no element: null, out of range, or on the free list
NotFoundIndex(L, h) ==
    \/ is_none(h)
    \/ IndexGet(h) >= capacity(L)
    \/ h \in SeqSet(FreeWalk(L))

\* C9: get, get_mut and is_index_used report "not found" (None / false) and do
\* not fault for every index that is null, out of range or unoccupied; get and
\* get_mut find an element for exactly the same indexes.
C9_LookupsOfInvalidIndex ==
    /\ (last.op \in {"get", "get_mut"} /\ NotFoundIndex(list, last.a))
            => (last.ret = Nil /\ fault = "none")
    /\ (last.op = "is_index_used" /\ NotFoundIndex(list, last.a))
            => (last.ret = FALSE /\ fault = "none")
    /\ \A h \in AnyIndex : (get(list, h) # Nil) <=> (get_mut(list, h) # Nil)

\* C9 witness: get_mut of a stale index (its slot is on the free list) while
\* the next slot holds an element.
C9_Witness ==
    /\ last.op = "get_mut" /\ last.ret = Nil
    /\ last.a \in SeqSet(FreeWalk(list))
    /\ is_index_used(list, last.a + 1)

\* C10: next_index(h) and prev_index(h) return none for every non-null index h
\* that is out of range or unoccupied; for an occupied h they return h's
\* successor / predecessor in the used list.
C10_NextPrevOfInvalidIndex ==
    /\ (/\ last.op \in {"next_index", "prev_index"}
        /\ is_some(last.a)
        /\ (IndexGet(last.a) >= capacity(list) \/ ~is_index_used(list, last.a)))
            => last.ret = None
    /\ (last.op = "next_index" /\ last.a \in Occupied(list)) =>
            \E i \in DOMAIN UsedWalk(list) :
                /\ UsedWalk(list)[i] = last.a
                /\ last.ret = (IF i < len(list) THEN UsedWalk(list)[i + 1] ELSE None)
    /\ (last.op = "prev_index" /\ last.a \in Occupied(list)) =>
            \E i \in DOMAIN UsedWalk(list) :
                /\ UsedWalk(list)[i] = last.a
                /\ last.ret = (IF i > 1 THEN UsedWalk(list)[i - 1] ELSE None)

\* ------------------------------------------------------------- move_index
MoveIndex ==
    \E h \in Legit(list), steps \in (-MaxSteps)..MaxSteps :
        /\ Running
        /\ UNCHANGED <<it, hist>>
        /\ last' = Call("move_index", h, steps, move_index(list, h, steps))
        /\ UNCHANGED <<list, other, fault>>

NextMove ==
    \/ InsertFirst \/ InsertLast \/ InsertBefore \/ InsertAfter
    \/ Remove \/ MoveIndex

SpecMove == Init /\ [][NextMove]_vars

\* the place of index h in the traversal of L (h is occupied)
Position(L, h) == CHOOSE i \in DOMAIN UsedWalk(L) : UsedWalk(L)[i] = h

\* C11: move_index(h, steps) from an occupied index h returns none whenever
\* fewer than |steps| elements lie beyond h in the chosen direction (it never
\* continues from the other end of the list); otherwise it returns the index
\* exactly |steps| elements after (steps > 0) or before (steps < 0) h, and h
\* itself for steps = 0.
C11_MoveIndexStopsAtEnd ==
    (last.op = "move_index" /\ last.a \in Occupied(list)) =>
        LET w == UsedWalk(list)
            j == Position(list, last.a) + last.b
        IN  last.ret = (IF j \in DOMAIN w THEN w[j] ELSE None)

\* ---------------------------------------------------------------- insertion
\* C12: insert_first(v) / insert_last(v) return an index t such that afterwards
\* first_index() = t (resp. last_index() = t), get(t) = v, len() has grown by
\* 1, and the traversal order of the elements present before is unchanged.
C12_InsertAtEnds ==
    [][last'.op \in {"insert_first", "insert_last"} =>
        LET t == last'.ret
        IN  /\ last'.op = "insert_first" => first_index(list') = t
            /\ last'.op = "insert_last" => last_index(list') = t
            /\ get(list', t) = last'.b
            /\ len(list') = len(list) + 1
            /\ Without(UsedWalk(list'), t) = UsedWalk(list)
            /\ Len(UsedWalk(list')) = Len(UsedWalk(list)) + 1
            /\ \A h \in Occupied(list) : get(list', h) = get(list, h)]_vars

\* C12 witness: insert_last put a third element into a recycled slot that is
\* not the highest one, behind two elements that were there.
C12_Witness ==
    /\ last.op = "insert_last" /\ last_index(list) = last.ret
    /\ len(list) = 3 /\ last.ret # ListIndexFrom(2)
    /\ get(list, last.ret) = last.b

\* C13: for an occupied index h, insert_before(h, v) returns t with
\* next_index(t) = h and prev_index(t) = the predecessor h had before the call
\* (none if h was first, and then first_index() = t); insert_after(h, v) gives
\* prev_index(t) = h and next_index(t) = h's former successor (last_index() = t
\* if h was last).  With h = none, insert_before is insert_first and
\* insert_after is insert_last.
C13_InsertBeside ==
    [][last'.op \in {"insert_before", "insert_after"} =>
        LET h == last'.a
            t == last'.ret
            before == last'.op = "insert_before"
        IN  /\ (before /\ h \in Occupied(list)) =>
                /\ next_index(list', t) = h
                /\ prev_index(list', t) = prev_index(list, h)
                /\ is_none(prev_index(list, h)) => first_index(list') = t
            /\ (~before /\ h \in Occupied(list)) =>
                /\ prev_index(list', t) = h
                /\ next_index(list', t) = next_index(list, h)
                /\ is_none(next_index(list, h)) => last_index(list') = t
            /\ (before /\ is_none(h)) =>
                /\ list' = insert_first(list, last'.b).l
                /\ t = insert_first(list, last'.b).r
            /\ (~before /\ is_none(h)) =>
                /\ list' = insert_last(list, last'.b).l
                /\ t = insert_last(list, last'.b).r]_vars

\* C13 witness: an element was inserted before the first of two elements and
\* became the new first element.
C13_Witness ==
    /\ last.op = "insert_before" /\ is_some(last.a)
    /\ len(list) = 3
    /\ first_index(list) = last.ret /\ next_index(list, last.ret) = last.a

\* ------------------------------------------- insertion beside a stale index
\* insert_before / insert_after do not test the index they are given.  A build
\* with debug assertions panics at the first debug_assert! that fails, a
\* release build carries on; both outcomes are steps of the model.
Builds == {"debug", "release"}

\* in range, but the slot is on the free list
StaleInRange(L) == Slots(L) \ Occupied(L)

InsertBeforeStale ==
    \E h \in StaleInRange(list), v \in Vals, build \in Builds :
        /\ Running
        /\ LET n == new_node(list, v)
               dbg == linkin_this_before_that_debug(n.l, n.r, h)
           IN  IF build = "debug" /\ ~dbg.ok
               THEN /\ list' = dbg.l
                    /\ fault' = "panic"
               ELSE /\ list' = linkin_this_before_that(n.l, n.r, h)
                    /\ UNCHANGED fault
        /\ UNCHANGED <<it, hist>>
        /\ last' = Call("insert_before", h, v, new_node(list, v).r)
        /\ UNCHANGED other

InsertAfterStale ==
    \E h \in StaleInRange(list), v \in Vals, build \in Builds :
        /\ Running
        /\ LET n == new_node(list, v)
               dbg == linkin_this_after_that_debug(n.l, n.r, h)
           IN  IF build = "debug" /\ ~dbg.ok
               THEN /\ list' = dbg.l
                    /\ fault' = "panic"
               ELSE /\ list' = linkin_this_after_that(n.l, n.r, h)
                    /\ UNCHANGED fault
        /\ UNCHANGED <<it, hist>>
        /\ last' = Call("insert_after", h, v, new_node(list, v).r)
        /\ UNCHANGED other

\* The invariants of the list hold of L: the two lists partition the slots,
\* the links agree, and the occupied slots are those of the used list.
Sound(L) == Partition(L) /\ WellLinked(L) /\ OccupiedIffUsed(L)

\* The calls are made on a sound list: the model follows the list up to the
\* first call that breaks it and no further.
NextStaleInsert ==
    \/ Sound(list) /\ InsertFirst
    \/ Sound(list) /\ InsertLast
    \/ Sound(list) /\ InsertBefore
    \/ Sound(list) /\ InsertAfter
    \/ Sound(list) /\ Remove
    \/ Sound(list) /\ InsertBeforeStale
    \/ Sound(list) /\ InsertAfterStale

SpecStaleInsert == Init /\ [][NextStaleInsert]_vars

\* C14: insert_before(h, v) and insert_after(h, v) called with a stale index h
\* (in range, its slot on the free list) do not corrupt the list: afterwards the
\* used and free lists still partition [0, capacity()), links are mutually
\* consistent with no cycle, and len() is the number of slots reachable from
\* first_index().
C14_StaleInsertKeepsInvariants ==
    [][(/\ last'.op \in {"insert_before", "insert_after"}
        /\ last'.a \in StaleInRange(list)) =>
        /\ Partition(list')
        /\ WellLinked(list')
        /\ Len(UsedWalk(list')) = len(list')]_vars

\* ------------------------------------------------------------------ C15
\* C15: swap_index(a, b) with two occupied indexes exchanges the elements stored
\* at a and b (get(a) afterwards is the old get(b) and the reverse) and changes no
\* link, no end of the used or free list, and neither len() nor capacity(); the
\* order of the indexes in a traversal is unchanged.
C15_SwapIndexExchanges ==
    [][(/\ last'.op = "swap_index"
        /\ last'.a \in Occupied(list)
        /\ last'.b \in Occupied(list)) =>
           /\ get(list', last'.a) = get(list, last'.b)
           /\ get(list', last'.b) = get(list, last'.a)
           /\ \A h \in Occupied(list) \ {last'.a, last'.b} : get(list', h) = get(list, h)
           /\ list'.nodes = list.nodes
           /\ list'.used = list.used
           /\ list'.free = list.free
           /\ len(list') = len(list)
           /\ capacity(list') = capacity(list)
           /\ UsedWalk(list') = UsedWalk(list)]_vars

\* two distinct occupied indexes holding different elements have been swapped
C15_Witness ==
    /\ last.op = "swap_index"
    /\ last.a \in Occupied(list)
    /\ last.b \in Occupied(list)
    /\ last.a # last.b
    /\ get(list, last.a) # get(list, last.b)
    /\ len(list) >= 3

\* ------------------------------------------------ swap_index, invalid index
\* swap_index with a pair of indexes of which at least one is null, out of range
\* or the index of a freed slot.
SwapIndexInvalid ==
    \E this \in AnyIndex, that \in AnyIndex :
        /\ Running
        /\ ~(this \in Occupied(list) /\ that \in Occupied(list))
        /\ IF swap_index_panics(list, this, that)
           THEN /\ fault' = "panic"
                /\ UNCHANGED list
           ELSE /\ list' = swap_index(list, this, that)
                /\ UNCHANGED fault
        /\ UNCHANGED <<it, hist>>
        /\ last' = Call("swap_index", this, that, Nil)
        /\ UNCHANGED other

\* The calls are made on a sound list: a list corrupted by a misuse is not
\* followed further.
NextSwapInvalid ==
    \/ Sound(list) /\ InsertFirst
    \/ Sound(list) /\ InsertLast
    \/ Sound(list) /\ InsertBefore
    \/ Sound(list) /\ InsertAfter
    \/ Sound(list) /\ Remove
    \/ Sound(list) /\ SwapIndexInvalid

SpecSwapInvalid == Init /\ [][NextSwapInvalid]_vars

\* C16: swap_index(a, b) leaves the whole list unchanged, and does not panic,
\* whenever either index is invalid (null, out of range, or of an unoccupied
\* slot); with one occupied and one freed index no element moves into a slot of
\* the free list.
C16_SwapIndexInvalidIsNoOp ==
    [][(/\ last'.op = "swap_index"
        /\ ~(last'.a \in Occupied(list) /\ last'.b \in Occupied(list))) =>
           /\ list' = list
           /\ fault' = "none"
           /\ \A h \in StaleInRange(list) : ~is_index_used(list', h)]_vars

\* ------------------------------------------------------------------ C17
\* C17: for distinct occupied indexes this and that, shift_index_before(this,
\* that) returns true and afterwards next_index(this) = that (shift_index_after:
\* prev_index(this) = that); get(this) and every other element are unchanged, the
\* relative order of the other indexes is unchanged, len() and capacity() are
\* unchanged, and the elements in traversal order are those of remove(this)
\* followed by insert_before / insert_after(that, elem).
C17_ShiftBeside ==
    [][(/\ last'.op \in {"shift_index_before", "shift_index_after"}
        /\ last'.a \in Occupied(list)
        /\ last'.b \in Occupied(list)
        /\ last'.a # last'.b) =>
           LET this == last'.a
               that == last'.b
               rem == remove(list, this)
               reinserted == IF last'.op = "shift_index_before"
                             THEN insert_before(rem.l, that, rem.r).l
                             ELSE insert_after(rem.l, that, rem.r).l
           IN  /\ last'.ret = TRUE
               /\ last'.op = "shift_index_before" => next_index(list', this) = that
               /\ last'.op = "shift_index_after" => prev_index(list', this) = that
               /\ \A r \in {reinserted} : Values(list') = Values(r)
               /\ \A h \in Occupied(list) : get(list', h) = get(list, h)
               /\ Occupied(list') = Occupied(list)
               /\ Without(UsedWalk(list'), this) = Without(UsedWalk(list), this)
               /\ len(list') = len(list)
               /\ capacity(list') = capacity(list)]_vars

\* the scenario of three elements inserted at the tail, the first of them then
\* shifted before the last: the traversal is second, first, third
C17_Witness ==
    /\ last.op = "shift_index_before"
    /\ last.ret = TRUE
    /\ last.a = ListIndexFrom(0)
    /\ last.b = ListIndexFrom(2)
    /\ UsedWalk(list) = <<ListIndexFrom(1), ListIndexFrom(0), ListIndexFrom(2)>>
    /\ get(list, last.a) # get(list, ListIndexFrom(1))

\* ------------------------------------------------- shifts, invalid index
\* an index one past the slots is out of range whatever the list holds
ShiftIndexes == 0..(MaxCap + 1)

\* the shift functions index nodes only after is_index_used has accepted the
\* index, so that none of them panics
ShiftIndexBeforeInvalid ==
    \E this \in ShiftIndexes, that \in ShiftIndexes :
        /\ Running
        /\ this \notin Occupied(list) \/ that \notin Occupied(list) \/ this = that
        /\ LET res == shift_index_before(list, this, that)
           IN  /\ list' = res.l
               /\ UNCHANGED <<it, hist>>
               /\ last' = Call("shift_index_before", this, that, res.r)
        /\ UNCHANGED <<other, fault>>

ShiftIndexAfterInvalid ==
    \E this \in ShiftIndexes, that \in ShiftIndexes :
        /\ Running
        /\ this \notin Occupied(list) \/ that \notin Occupied(list) \/ this = that
        /\ LET res == shift_index_after(list, this, that)
           IN  /\ list' = res.l
               /\ UNCHANGED <<it, hist>>
               /\ last' = Call("shift_index_after", this, that, res.r)
        /\ UNCHANGED <<other, fault>>

ShiftIndexToFrontInvalid ==
    \E this \in ShiftIndexes \ Occupied(list) :
        /\ Running
        /\ LET res == shift_index_to_front(list, this)
           IN  /\ list' = res.l
               /\ UNCHANGED <<it, hist>>
               /\ last' = Call("shift_index_to_front", this, None, res.r)
        /\ UNCHANGED <<other, fault>>

ShiftIndexToBackInvalid ==
    \E this \in ShiftIndexes \ Occupied(list) :
        /\ Running
        /\ LET res == shift_index_to_back(list, this)
           IN  /\ list' = res.l
               /\ UNCHANGED <<it, hist>>
               /\ last' = Call("shift_index_to_back", this, None, res.r)
        /\ UNCHANGED <<other, fault>>

NextShiftInvalid ==
    \/ InsertFirst \/ InsertLast \/ InsertBefore \/ InsertAfter \/ Remove
    \/ ShiftIndexBeforeInvalid \/ ShiftIndexAfterInvalid
    \/ ShiftIndexToFrontInvalid \/ ShiftIndexToBackInvalid

SpecShiftInvalid == Init /\ [][NextShiftInvalid]_vars

\* C18: shift_index_before(this, that) and shift_index_after(this, that) return
\* false and leave the whole list unchanged when this or that is null, out of
\* range or unoccupied, or when this = that; shift_index_to_front(this) and
\* shift_index_to_back(this) do so when this is null, out of range or unoccupied.
C18_ShiftInvalidIsNoOp ==
    [][(\/ /\ last'.op \in {"shift_index_before", "shift_index_after"}
           /\ \/ last'.a \notin Occupied(list)
              \/ last'.b \notin Occupied(list)
              \/ last'.a = last'.b
        \/ /\ last'.op \in {"shift_index_to_front", "shift_index_to_back"}
           /\ last'.a \notin Occupied(list)) =>
           /\ last'.ret = FALSE
           /\ list' = list
           /\ fault' = "none"]_vars

\* shift_index_before of an occupied index and the index of a freed slot
C18_Witness ==
    /\ last.op = "shift_index_before"
    /\ last.a \in Occupied(list)
    /\ last.b \in StaleInRange(list)
    /\ last.ret = FALSE
    /\ len(list) >= 2

\* ------------------------------------------------------------------ C19
\* C19: for an occupied index h, shift_index_to_front(h) returns true and
\* afterwards first_index() = h (shift_index_to_back(h): last_index() = h); get(h)
\* and every other element are unchanged, the relative order of the other
\* indexes is unchanged and len() and capacity() are unchanged; also when h is
\* already first / last and when h is the only element.
C19_ShiftToEnd ==
    [][(/\ last'.op \in {"shift_index_to_front", "shift_index_to_back"}
        /\ last'.a \in Occupied(list)) =>
           LET h == last'.a
               others == Without(UsedWalk(list), h)
           IN  /\ last'.ret = TRUE
               /\ last'.op = "shift_index_to_front" =>
                      /\ first_index(list') = h
                      /\ UsedWalk(list') = <<h>> \o others
               /\ last'.op = "shift_index_to_back" =>
                      /\ last_index(list') = h
                      /\ UsedWalk(list') = Append(others, h)
               /\ UsedWalkBack(list') = Reverse(UsedWalk(list'))
               /\ \A i \in Occupied(list) : get(list', i) = get(list, i)
               /\ Occupied(list') = Occupied(list)
               /\ len(list') = len(list)
               /\ capacity(list') = capacity(list)]_vars

\* the last of three elements has been shifted to the front
C19_Witness ==
    /\ last.op = "shift_index_to_front"
    /\ last.ret = TRUE
    /\ last.a = ListIndexFrom(2)
    /\ UsedWalk(list) = <<ListIndexFrom(2), ListIndexFrom(0), ListIndexFrom(1)>>

\* ------------------------------------------------------------------ C20
\* C20: list.append(other) leaves the traversal of list equal to its previous
\* traversal followed by the previous traversal of other, in the original order;
\* list.prepend(other) leaves it equal to the previous traversal of other
\* followed by that of list; in both cases len() becomes the sum of the two
\* lengths and other ends empty (is_empty(), len() = 0).
C20_AppendPrepend ==
    [][(last'.op \in {"append", "prepend"}) =>
           /\ last'.op = "append" => Values(list') = Values(list) \o Values(other)
           /\ last'.op = "prepend" => Values(list') = Values(other) \o Values(list)
           /\ len(list') = len(list) + len(other)
           /\ is_empty(other')
           /\ len(other') = 0
           /\ Values(other') = <<>>
           /\ fault' = "none"]_vars

\* a list of two different elements has been prepended to a list of one
\* element: other keeps its two slots, both free, and list holds three elements
C20_Witness ==
    /\ last.op = "prepend"
    /\ capacity(other) = 2
    /\ is_empty(other)
    /\ len(list) = 3
    /\ Values(list)[1] # Values(list)[2]

\* ------------------------------------------------------------------ C21
\* C21: split(h) with an occupied index h returns a new list whose traversal is
\* the elements from h to the old tail, in their original order; the traversal
\* of self becomes the elements that preceded h, in their original order, on the
\* indexes they had; self.len() + returned.len() is the previous len().
C21_SplitAtIndex ==
    [][(last'.op = "split" /\ last'.a \in Occupied(list)) =>
           LET w == UsedWalk(list)
               vs == Values(list)
               p == Position(list, last'.a)
           IN  /\ Values(other') = SubSeq(vs, p, Len(vs))
               /\ Values(list') = SubSeq(vs, 1, p - 1)
               /\ UsedWalk(list') = SubSeq(w, 1, p - 1)
               /\ len(list') + len(other') = len(list)
               /\ len(other') = Len(vs) - p + 1
               /\ Partition(other') /\ WellLinked(other')]_vars

\* a list of three has been split at its second element, and the two elements
\* moved differ, so that their order shows
C21_Witness ==
    /\ last.op = "split"
    /\ len(list) = 1
    /\ len(other) = 2
    /\ Values(other)[1] # Values(other)[2]

\* --------------------------------------------------- split, invalid index
\* split with an index that is null, out of range or of a freed slot
SplitInvalid ==
    \E h \in ShiftIndexes \ Occupied(list) :
        /\ Running
        /\ LET res == split(list, h)
           IN  list' = res.l /\ other' = res.r
        /\ UNCHANGED <<it, hist>>
        /\ last' = Call("split", h, None, Nil)
        /\ UNCHANGED fault

NextSplitInvalid ==
    \/ InsertFirst \/ InsertLast \/ InsertBefore \/ InsertAfter \/ Remove
    \/ SplitInvalid

SpecSplitInvalid == Init /\ [][NextSplitInvalid]_vars

\* C22: split(h) with h null, out of range or unoccupied returns an empty list
\* and leaves the whole state of self unchanged.
C22_SplitInvalidIsNoOp ==
    [][(last'.op = "split" /\ last'.a \notin Occupied(list)) =>
           /\ list' = list
           /\ other' = NewList
           /\ is_empty(other') /\ len(other') = 0 /\ capacity(other') = 0
           /\ fault' = "none"]_vars

\* split at the index of a freed slot of a list that holds elements
C22_Witness ==
    /\ last.op = "split"
    /\ last.a \in StaleInRange(list)
    /\ len(list) >= 1
    /\ other = NewList

\* ------------------------------------------------------------------ C23
\* C23: trim_safe() changes no occupied index: for every index h occupied before
\* the call, get(h), next_index(h) and prev_index(h) are the same after it, and
\* len(), first_index() and last_index() are unchanged.
C23_TrimSafeKeepsIndexes ==
    [][(last'.op = "trim_safe") =>
           /\ \A h \in Occupied(list) :
                  /\ get(list', h) = get(list, h)
                  /\ next_index(list', h) = next_index(list, h)
                  /\ prev_index(list', h) = prev_index(list, h)
           /\ Occupied(list') = Occupied(list)
           /\ len(list') = len(list)
           /\ first_index(list') = first_index(list)
           /\ last_index(list') = last_index(list)
           /\ UsedWalk(list') = UsedWalk(list)]_vars

\* after trim_safe the list holds two elements whose traversal order is not the
\* order of their slots
C23_Witness ==
    /\ last.op = "trim_safe"
    /\ len(list) = 2
    /\ first_index(list) = ListIndexFrom(1)
    /\ last_index(list) = ListIndexFrom(0)

\* ------------------------------------------------------------------ C24
\* one more than the largest occupied slot number, 0 when no slot is occupied
TopOccupied(L) ==
    IF Occupied(L) = {} THEN 0
    ELSE CHOOSE h \in Occupied(L) : \A g \in Occupied(L) : g <= h

\* C24: trim_safe() removes exactly the maximal trailing run of free slots:
\* afterwards capacity() is 0 if the list is empty and otherwise one more than
\* the largest occupied slot number, the free slots below an occupied slot stay
\* on a consistent free list, capacity() = len() holds afterwards iff every free
\* slot was in the trailing run, and a second trim_safe() changes nothing.
C24_TrimSafeTrailingRun ==
    [][(last'.op = "trim_safe") =>
           LET top == TopOccupied(list)
               below == {f \in StaleInRange(list) : f < top}
           IN  /\ capacity(list') = top
               /\ is_empty(list) => capacity(list') = 0
               /\ SeqSet(FreeWalk(list')) = below
               /\ Len(FreeWalk(list')) = Cardinality(below)
               /\ Partition(list') /\ WellLinked(list')
               /\ (capacity(list') = len(list')) <=> (below = {})
               /\ trim_safe(list') = list']_vars

\* after trim_safe one element is left in the second slot and the first slot
\* stays on the free list: capacity() exceeds len()
C24_Witness ==
    /\ last.op = "trim_safe"
    /\ len(list) = 1
    /\ capacity(list) = 2
    /\ FreeWalk(list) = <<ListIndexFrom(0)>>

\* ------------------------------------------------------------------ C25
\* how many times the value v occurs among the elements of L
Count(L, v) == Cardinality({h \in Occupied(L) : get(L, h) = v})

\* C25: after trim_swap() capacity() = len(), the free list is empty, len() is
\* unchanged and the multiset of the elements of the list is the same as before
\* the call.
C25_TrimSwapCompacts ==
    [][(last'.op = "trim_swap") =>
           /\ capacity(list') = len(list')
           /\ ends_is_empty(list'.free) /\ FreeWalk(list') = <<>>
           /\ len(list') = len(list)
           /\ \A v \in Vals : Count(list', v) = Count(list, v)
           /\ Len(UsedWalk(list')) = len(list)
           /\ fault' = "none"]_vars

\* after trim_swap two different elements fill the two slots, the traversal
\* going from the second slot to the first
C25_Witness ==
    /\ last.op = "trim_swap"
    /\ len(list) = 2
    /\ capacity(list) = 2
    /\ UsedWalk(list) = <<ListIndexFrom(1), ListIndexFrom(0)>>
    /\ get(list, ListIndexFrom(0)) # get(list, ListIndexFrom(1))

\* ------------------------------------------------------------------ C26
\* C26: trim_swap() relocates only elements whose slot number is at or above the
\* new capacity: every index occupied before the call with slot number < len()
\* still has its element afterwards, and every index with slot number >= len()
\* is reported unoccupied afterwards.
C26_TrimSwapMovesHighSlots ==
    [][(last'.op = "trim_swap") =>
           /\ \A h \in Occupied(list) :
                  IndexGet(h) < len(list) => get(list', h) = get(list, h)
           /\ \A h \in AnyIndex :
                  (is_some(h) /\ IndexGet(h) >= len(list)) =>
                      /\ ~is_index_used(list', h)
                      /\ get(list', h) = Nil]_vars

\* after trim_swap one element is left, in the first slot
C26_Witness ==
    /\ last.op = "trim_swap"
    /\ len(list) = 1
    /\ capacity(list) = 1
    /\ is_index_used(list, ListIndexFrom(0))

\* ------------------------------------------------------------------ C27
InsertOps == {"insert_first", "insert_last", "insert_before", "insert_after"}
RemoveOps == {"remove", "remove_first", "remove_last"}

\* C27: an insertion increases capacity() by exactly 1 if no free slot exists
\* before the call (len() = capacity()), and otherwise leaves capacity()
\* unchanged and returns the index of a slot taken from the free list; hence
\* single inserts and removes in turn on an empty list never raise capacity()
\* above 1: a removal leaves capacity() alone and an insertion into a list of
\* no element and at most one slot gives capacity() = 1.
C27_InsertRecyclesFreeSlot ==
    [][/\ (last'.op \in InsertOps) =>
            /\ IF len(list) = capacity(list)
               THEN /\ capacity(list') = capacity(list) + 1
                    /\ last'.ret = ListIndexFrom(capacity(list))
                    /\ FreeWalk(list) = <<>>
               ELSE /\ capacity(list') = capacity(list)
                    /\ last'.ret \in SeqSet(FreeWalk(list))
                    /\ last'.ret \notin SeqSet(FreeWalk(list'))
            /\ is_index_used(list', last'.ret)
            /\ (len(list) = 0 /\ capacity(list) <= 1) => capacity(list') = 1
       /\ (last'.op \in RemoveOps) => capacity(list') = capacity(list)]_vars

\* the last insertion returned the first slot of a list of two slots: the slot
\* was taken from the free list
C27_Witness ==
    /\ last.op \in InsertOps
    /\ last.ret = ListIndexFrom(0)
    /\ capacity(list) = 2
    /\ len(list) = 2

\* ------------------------------------------------------------------ C28
\* C28: after clear() the list is in the empty state: len() = 0, capacity() = 0,
\* is_empty() is true, first_index() and last_index() are null, the free list is
\* empty, and get(h) finds nothing for every index h occupied before the call.
C28_ClearEmpties ==
    [][(last'.op = "clear") =>
           /\ len(list') = 0
           /\ capacity(list') = 0
           /\ is_empty(list')
           /\ is_none(first_index(list'))
           /\ is_none(last_index(list'))
           /\ ends_is_empty(list'.free) /\ FreeWalk(list') = <<>>
           /\ \A h \in Occupied(list) :
                  /\ get(list', h) = Nil
                  /\ ~is_index_used(list', h)
           /\ list' = NewList]_vars

\* the list has been cleared
C28_Witness ==
    /\ last.op = "clear"
    /\ is_empty(list)
    /\ capacity(list) = 0

\* ------------------------------------------------------- the read iterator
\* the indexes of L in traversal order, each with its element
Items(L) == LET w == UsedWalk(L) IN [i \in 1..Len(w) |-> <<w[i], get(L, w[i])>>]

\* list.iter(): the list is borrowed until the iterator is gone
Iter ==
    /\ Running
    /\ it' = iter(list)
    /\ hist' = [NoHist EXCEPT !.orig = Items(list)]
    /\ last' = Call("iter", None, None, Nil)
    /\ UNCHANGED <<list, other, fault>>

IterNext ==
    /\ Alive /\ it.kind = "iter" /\ hist.idle < MaxIdle
    /\ LET res == ListIter_next(list, it)
       IN  /\ it' = res.i
           /\ hist' = IF res.r = Nil
                      THEN [hist EXCEPT !.idle = @ + 1]
                      ELSE [hist EXCEPT !.front = Append(@, <<it.start, res.r>>)]
           /\ last' = Call("next", None, None, res.r)
    /\ UNCHANGED <<list, other, fault>>

IterNextBack ==
    /\ Alive /\ it.kind = "iter" /\ hist.idle < MaxIdle
    /\ LET res == ListIter_next_back(list, it)
       IN  /\ it' = res.i
           /\ hist' = IF res.r = Nil
                      THEN [hist EXCEPT !.idle = @ + 1]
                      ELSE [hist EXCEPT !.back = Append(@, <<it.end, res.r>>)]
           /\ last' = Call("next_back", None, None, res.r)
    /\ UNCHANGED <<list, other, fault>>

NextIter ==
    \/ InsertFirst \/ InsertLast \/ InsertBefore \/ InsertAfter \/ Remove
    \/ Iter \/ IterNext \/ IterNextBack

SpecIter == Init /\ [][NextIter]_vars

\* C29: for a read iterator over a list of length n and any interleaving of
\* next() and next_back(): exactly n calls return an element, every element is
\* yielded exactly once (the element where the cursors meet is not yielded
\* twice), next() yields in traversal order from the front and next_back() in
\* reverse order from the back, and every call after the n-th yield returns
\* nothing.
C29_IterYieldsEachOnce ==
    (it.kind = "iter") =>
        LET n == len(list)
            items == Items(list)
            f == hist.front
            b == hist.back
        IN  /\ hist.orig = items
            /\ Len(f) + Len(b) <= n
            /\ f = SubSeq(items, 1, Len(f))
            /\ \A i \in DOMAIN b : b[i] = items[n + 1 - i]
            /\ hist.idle > 0 => Len(f) + Len(b) = n
            /\ (last.op \in {"next", "next_back"} /\ last.ret = Nil) => Len(f) + Len(b) = n
            /\ it.len = n - (Len(f) + Len(b))

\* over a list of three elements next() has yielded two and next_back() one,
\* so that the cursors have met, and a later call has returned nothing
C29_Witness ==
    /\ it.kind = "iter"
    /\ len(list) = 3
    /\ Len(hist.front) = 2
    /\ Len(hist.back) = 1
    /\ hist.idle >= 1
    /\ hist.front[1][2] # hist.front[2][2]

\* --------------------------------------------------- the draining iterator
\* list.drain_iter(): the list is borrowed mutably until the iterator is dropped
DrainIter ==
    /\ Running
    /\ it' = drain_iter(list)
    /\ hist' = [NoHist EXCEPT !.orig = Items(list)]
    /\ last' = Call("drain_iter", None, None, Nil)
    /\ UNCHANGED <<list, other, fault>>

DrainNext ==
    /\ Alive /\ it.kind = "drain" /\ hist.idle < MaxIdle
    /\ LET res == ListDrainIter_next(list)
       IN  /\ list' = res.l
           /\ hist' = IF res.r = Nil
                      THEN [hist EXCEPT !.idle = @ + 1]
                      ELSE [hist EXCEPT !.front = Append(@, <<first_index(list), res.r>>)]
           /\ last' = Call("drain_next", None, None, res.r)
    /\ UNCHANGED <<other, fault, it>>

DrainNextBack ==
    /\ Alive /\ it.kind = "drain" /\ hist.idle < MaxIdle
    /\ LET res == ListDrainIter_next_back(list)
       IN  /\ list' = res.l
           /\ hist' = IF res.r = Nil
                      THEN [hist EXCEPT !.idle = @ + 1]
                      ELSE [hist EXCEPT !.back = Append(@, <<last_index(list), res.r>>)]
           /\ last' = Call("drain_next_back", None, None, res.r)
    /\ UNCHANGED <<other, fault, it>>

\* the iterator goes out of scope: what it has not yielded is cleared (the call
\* record keeps, as b, how many elements the list still held)
DrainDrop ==
    /\ Alive /\ it.kind = "drain"
    /\ list' = ListDrainIter_drop(list)
    /\ it' = NoIter
    /\ hist' = NoHist
    /\ last' = Call("drain_drop", None, len(list), Nil)
    /\ UNCHANGED <<other, fault>>

NextDrain ==
    \/ InsertFirst \/ InsertLast \/ InsertBefore \/ InsertAfter \/ Remove
    \/ DrainIter \/ DrainNext \/ DrainNextBack \/ DrainDrop

SpecDrain == Init /\ [][NextDrain]_vars

\* what the draining iterator has yielded from the front, what the list still
\* holds, and what it has yielded from the back, reversed
DrainedAndLeft == hist.front \o Items(list) \o Reverse(hist.back)

\* C30: for a draining iterator over a list of length n and any interleaving of
\* next() and next_back(): each next() removes and returns the current first
\* element and each next_back() the current last element, every original
\* element is yielded exactly once over n calls, len() decreases by 1 per yield,
\* and all later calls return nothing; next() alone yields the original
\* traversal order.
C30_DrainYieldsEachOnce ==
    (it.kind = "drain") =>
        LET n == Len(hist.orig)
            f == hist.front
            b == hist.back
        IN  /\ DrainedAndLeft = hist.orig
            /\ f = SubSeq(hist.orig, 1, Len(f))
            /\ \A i \in DOMAIN b : b[i] = hist.orig[n + 1 - i]
            /\ len(list) = n - (Len(f) + Len(b))
            /\ hist.idle > 0 => (Len(f) + Len(b) = n /\ is_empty(list))
            /\ (last.op \in {"drain_next", "drain_next_back"} /\ last.ret = Nil) =>
                   Len(f) + Len(b) = n
            /\ (Len(b) = 0 /\ is_empty(list)) => f = hist.orig

\* a list of three elements has been drained by two next() and one
\* next_back(), and a later call has returned nothing
C30_Witness ==
    /\ it.kind = "drain"
    /\ Len(hist.orig) = 3
    /\ Len(hist.front) = 2
    /\ Len(hist.back) = 1
    /\ hist.idle >= 1
    /\ hist.front[1][2] # hist.front[2][2]
    /\ is_empty(list)

\* ------------------------------------------------------------------ C31
\* C31: whenever a draining iterator is dropped, after any number k of next() /
\* next_back() calls (0 <= k <= n), the list is empty afterwards: len() = 0,
\* is_empty() is true, and none of the n - k elements not yielded is still
\* reachable in the list.
C31_DrainDropClears ==
    [][(last'.op = "drain_drop") =>
           /\ len(list') = 0
           /\ is_empty(list')
           /\ UsedWalk(list') = <<>>
           /\ \A h \in Occupied(list) :
                  /\ get(list', h) = Nil
                  /\ ~is_index_used(list', h)
           /\ Occupied(list') = {}
           /\ it' = NoIter
           /\ fault' = "none"]_vars

\* a draining iterator has been dropped while the list still held two elements
C31_Witness ==
    /\ last.op = "drain_drop"
    /\ last.b = 2
    /\ is_empty(list)
    /\ it = NoIter

\* ---------------------------------------------------- the mutable iterator
\* list.iter_mut(): the list is borrowed mutably until the iterator is gone
IterMut ==
    /\ Running
    /\ it' = iter_mut(list)
    /\ hist' = [NoHist EXCEPT !.orig = Items(list)]
    /\ last' = Call("iter_mut", None, None, Nil)
    /\ UNCHANGED <<list, other, fault>>

\* what the iterator has handed out so far, from either end
Handed == hist.front \o hist.back

\* One call of next() / next_back() at the cursor at, with res what the call
\* gives, the yield recorded in the history field side; the caller writes w
\* through the reference it is handed.  A cursor outside the vector is
\* undefined behaviour (any outcome), an empty slot makes unwrap() panic, and
\* len -= 1 at len = 0 panics in a build with overflow checks and wraps
\* otherwise (len is kept modulo 2^64: -1 stands for usize::MAX).
IterMutStep(op, at, res, side, w, build) ==
    IF ListIterMut_out_of_bounds(list, at)
    THEN /\ fault' \in {"none", "panic"}
         /\ last' = Call(op, at, None, Nil)
         /\ UNCHANGED <<list, it, hist>>
    ELSE IF is_some(at) /\ res.r = Nil
    THEN /\ fault' = "panic"
         /\ it' = res.i
         /\ last' = Call(op, at, None, Nil)
         /\ UNCHANGED <<list, hist>>
    ELSE IF is_none(at)
    THEN /\ hist' = [hist EXCEPT !.idle = @ + 1]
         /\ last' = Call(op, at, None, Nil)
         /\ UNCHANGED <<list, it, fault>>
    ELSE IF it.start # it.end /\ it.len = 0 /\ build = "debug"
    THEN /\ fault' = "panic"
         /\ last' = Call(op, at, None, Nil)
         /\ UNCHANGED <<list, it, hist>>
    ELSE /\ it' = res.i
         /\ hist' = [hist EXCEPT ![side] = Append(@, <<at, res.r>>)]
         /\ list' = [list EXCEPT !.elems[IndexGet(at) + 1] = w]
         /\ last' = Call(op, at, w, res.r)
         /\ UNCHANGED fault

IterMutNext ==
    \E w \in Vals, build \in Builds :
        /\ Alive /\ it.kind = "iter_mut" /\ hist.idle < MaxIdle
        /\ Len(Handed) <= MaxCap
        /\ IterMutStep("next_mut", it.start, ListIterMut_next(list, it), "front", w, build)
        /\ UNCHANGED other

IterMutNextBack ==
    \E w \in Vals, build \in Builds :
        /\ Alive /\ it.kind = "iter_mut" /\ hist.idle < MaxIdle
        /\ Len(Handed) <= MaxCap
        /\ IterMutStep("next_back_mut", it.end, ListIterMut_next_back(list, it), "back", w, build)
        /\ UNCHANGED other

\* size_hint(): (self.len, Some(self.len)), written <<lower, upper>>
ListIter_size_hint(I) == <<I.len, I.len>>
ListIterMut_size_hint(I) == <<I.len, I.len>>

IterSizeHint ==
    /\ Alive /\ it.kind = "iter"
    /\ last' = Call("size_hint", None, None, ListIter_size_hint(it))
    /\ UNCHANGED <<list, other, fault, it, hist>>

IterMutSizeHint ==
    /\ Alive /\ it.kind = "iter_mut"
    /\ last' = Call("size_hint_mut", None, None, ListIterMut_size_hint(it))
    /\ UNCHANGED <<list, other, fault, it, hist>>

NextIters ==
    \/ InsertFirst \/ InsertLast \/ InsertBefore \/ InsertAfter \/ Remove
    \/ Iter \/ IterNext \/ IterNextBack \/ IterSizeHint
    \/ IterMut \/ IterMutNext \/ IterMutNextBack \/ IterMutSizeHint

SpecIters == Init /\ [][NextIters]_vars

\* The mutable iterator over a list that a stale insert_before / insert_after
\* may have left with a cycle: the list is built on sound lists only, and the
\* iterator runs over whatever the last call left.
NextIterMutMisuse ==
    \/ Sound(list) /\ InsertFirst
    \/ Sound(list) /\ InsertLast
    \/ Sound(list) /\ Remove
    \/ Sound(list) /\ InsertBeforeStale
    \/ Sound(list) /\ InsertAfterStale
    \/ IterMut \/ IterMutNext \/ IterMutNextBack

SpecIterMutMisuse == Init /\ [][NextIterMutMisuse]_vars

\* C32: for a mutable iterator over any list and any interleaving of next() and
\* next_back(), no slot is handed out more than once during the life of the
\* iterator, every slot handed out is occupied, and after all len() elements
\* are yielded both next() and next_back() return nothing.
C32_IterMutHandsOutOnce ==
    (it.kind = "iter_mut") =>
        LET n == len(list)
            slots == {Handed[i][1] : i \in DOMAIN Handed}
        IN  /\ Cardinality(slots) = Len(Handed)
            /\ slots \subseteq Occupied(list)
            /\ \A i \in DOMAIN Handed : Handed[i][2] # Nil
            /\ Len(Handed) <= n
            /\ Len(Handed) = n =>
                   /\ ListIterMut_next(list, it).r = Nil
                   /\ ListIterMut_next_back(list, it).r = Nil
            /\ hist.idle > 0 => Len(Handed) = n
            /\ fault = "none"

\* ------------------------------------------------ conversions to ListIndex
\* The conversions are exact in the width of their integers.  TLC's integers
\* stop short of 2^32, so a u32 is written as two 16-bit limbs and a u64 / usize
\* (of a 64-bit target) as four, most significant first.
LimbBase == 65536
\* limbs at the two ends of their range
Limbs == {0, 1, LimbBase - 2, LimbBase - 1}
U32s == [1..2 -> Limbs]
U64s == [1..4 -> Limbs]

\* the numbers 0 and 2^32 - 1 as a u32
U32Zero == <<0, 0>>
U32Max == <<LimbBase - 1, LimbBase - 1>>

\* n as u32: the low 32 bits
as_u32(n) == <<n[Len(n) - 1], n[Len(n)]>>
\* x as usize: zero extended
as_usize(x) == <<0, 0>> \o x
\* wrapping x + 1 and x - 1 of a u32
u32_add_one(x) ==
    IF x[2] < LimbBase - 1 THEN <<x[1], x[2] + 1>>
    ELSE IF x[1] < LimbBase - 1 THEN <<x[1] + 1, 0>>
    ELSE U32Zero
u32_sub_one(x) ==
    IF x[2] > 0 THEN <<x[1], x[2] - 1>>
    ELSE IF x[1] > 0 THEN <<x[1] - 1, LimbBase - 1>>
    ELSE U32Max

\* A ListIndex is its ndx: Option<NonZeroU32>, None written as U32Zero.
ListIndex_new == U32Zero

\* n as u32 + 1 overflows
ListIndex_set_overflows(n) == as_u32(n) = U32Max

\* set(Some(n)): NonZeroU32::try_from(n as u32 + 1).ok(), the sum wrapping
\* (a build without overflow checks)
ListIndex_set(n) == u32_add_one(as_u32(n))

\* get(): Some(ndx as usize - 1), None (Nil) for the null index
ListIndex_get(ndx) == IF ndx = U32Zero THEN Nil ELSE as_usize(u32_sub_one(ndx))

\* ListIndex::from(n) for n: u32, u64 or usize; the overflow of n as u32 + 1
\* panics in a build with overflow checks
IndexFrom(op, n, build) ==
    IF ListIndex_set_overflows(n) /\ build = "debug"
    THEN /\ fault' = "panic"
         /\ last' = Call(op, n, None, Nil)
    ELSE /\ last' = Call(op, n, None, ListIndex_set(n))
         /\ UNCHANGED fault

FromU32 ==
    \E n \in U32s, build \in Builds :
        /\ Alive /\ it = NoIter
        /\ IndexFrom("from_u32", n, build)
        /\ UNCHANGED <<list, other, it, hist>>

FromU64 ==
    \E n \in U64s, build \in Builds :
        /\ Alive /\ it = NoIter
        /\ IndexFrom("from_u64", n, build)
        /\ UNCHANGED <<list, other, it, hist>>

FromUsize ==
    \E n \in U64s, build \in Builds :
        /\ Alive /\ it = NoIter
        /\ IndexFrom("from_usize", n, build)
        /\ UNCHANGED <<list, other, it, hist>>

\* ListIndex::from(None::<usize>), ListIndex::new(), ListIndex::default()
FromNone ==
    \E op \in {"from_none", "index_new", "index_default"} :
        /\ Alive /\ it = NoIter
        /\ last' = Call(op, None, None, ListIndex_new)
        /\ UNCHANGED <<list, other, fault, it, hist>>

NextFrom == FromU32 \/ FromU64 \/ FromUsize \/ FromNone

SpecFrom == Init /\ [][NextFrom]_vars

\* the number n is at most 2^32 - 2
FitsIndex(n) ==
    /\ \A i \in 1..(Len(n) - 2) : n[i] = 0
    /\ as_u32(n) # U32Max

\* C33: the conversion is a total function: for every unsigned slot number n
\* (u32, u64 or usize) ListIndex::from(n) is a non-null index whose slot number
\* (get) is n when n <= 2^32 - 2, and the null index for every larger n; it
\* never fails and never gives the index of another slot; from(None), new()
\* and default() are the null index.
C33_IndexFromIsTotal ==
    /\ (last.op \in {"from_u32", "from_u64", "from_usize"}) =>
           /\ fault = "none"
           /\ IF FitsIndex(last.a)
              THEN /\ last.ret # ListIndex_new
                   /\ ListIndex_get(last.ret) = as_usize(as_u32(last.a))
              ELSE last.ret = ListIndex_new
    /\ (last.op \in {"from_none", "index_new", "index_default"}) =>
           /\ last.ret = ListIndex_new
           /\ ListIndex_get(last.ret) = Nil

\* ------------------------------------------------------------------ lookup
\* elems.contains(&Some(elem))
contains(L, elem) == \E i \in 1..Len(L.elems) : L.elems[i] = elem

\* elems.iter().position(..): the first slot, from slot i on, whose element
\* is Some(data) with data == elem; Nil when the scan finds none
RECURSIVE position(_, _, _)
position(L, elem, i) ==
    IF i >= Len(L.elems) THEN Nil
    ELSE IF L.elems[i + 1] # Nil /\ L.elems[i + 1] = elem THEN ListIndexFrom(i)
    ELSE position(L, elem, i + 1)

\* Mutant of index_of: the first match in list order.
index_of_in_list_order(L, elem) ==
    LET w == UsedWalk(L)
        hits == {i \in DOMAIN w : get(L, w[i]) = elem}
    IN  IF hits = {} THEN None
        ELSE w[CHOOSE i \in hits : \A j \in hits : i <= j]

\* ListIndex::from(position): None stays the null index
index_of(L, elem) == position(L, elem, 0)

IndexOf ==
    \E v \in Vals :
        /\ Running
        /\ last' = Call("index_of", None, v, index_of(list, v))
        /\ UNCHANGED <<list, other, fault, it, hist>>

Contains ==
    \E v \in Vals :
        /\ Running
        /\ last' = Call("contains", None, v, contains(list, v))
        /\ UNCHANGED <<list, other, fault, it, hist>>

NextLookup ==
    \/ InsertFirst \/ InsertLast \/ InsertBefore \/ InsertAfter \/ Remove
    \/ IndexOf \/ Contains

SpecLookup == Init /\ [][NextLookup]_vars

\* C34: index_of(v) is the index of the occupied slot with the lowest slot
\* number whose element equals v (storage order, whatever the list order), and
\* none iff no occupied slot holds v; contains(v) is true iff index_of(v) is
\* not none.
C34_IndexOfLowestSlot ==
    /\ (last.op = "index_of") =>
           LET holders == {h \in Occupied(list) : get(list, h) = last.b}
           IN  /\ (last.ret = None) <=> (holders = {})
               /\ (last.ret # None) =>
                      /\ last.ret \in holders
                      /\ \A h \in holders : last.ret <= h
    /\ (last.op = "contains") =>
           (last.ret <=> (index_of(list, last.b) # None))

\* index_of found v in a slot that is not the first holder of v in list order
C34_Witness ==
    /\ last.op = "index_of"
    /\ last.ret # None
    /\ last.ret # first_index(list)
    /\ get(list, first_index(list)) = last.b

\* ----------------------------------------------------------- with_capacity
\* Both vectors are Vec::with_capacity(capacity): storage is reserved, their
\* length is 0 and no method of the list reads the reservation.
with_capacity(n) == NewList

\* IndexList::with_capacity(n), the list being the one constructed
WithCapacity ==
    \E n \in 0..MaxCap :
        /\ Running
        /\ list' = with_capacity(n)
        /\ last' = Call("with_capacity", None, n, Nil)
        /\ UNCHANGED <<other, fault, it, hist>>

NextWithCapacity ==
    \/ WithCapacity
    \/ InsertFirst \/ InsertLast \/ InsertBefore \/ InsertAfter \/ Remove

SpecWithCapacity == Init /\ [][NextWithCapacity]_vars

\* C35: with_capacity(n) creates an empty list (len() = 0, is_empty()) whose
\* capacity() is at least n right after construction.
C35_WithCapacityReserves ==
    (last.op = "with_capacity") =>
        /\ len(list) = 0
        /\ is_empty(list)
        /\ capacity(list) >= last.b

\* ---------------------------------------------------------------- size_hint
\* the iterator returns nothing at either end
Exhausted ==
    IF it.kind = "iter"
    THEN ListIter_next(list, it).r = Nil /\ ListIter_next_back(list, it).r = Nil
    ELSE ListIterMut_next(list, it).r = Nil /\ ListIterMut_next_back(list, it).r = Nil

C37_EndsAgree ==
    /\ is_none(first_index(list)) <=> is_none(last_index(list))
    /\ is_none(last_index(list)) <=> (len(list) = 0)
    /\ (len(list) = 0) <=> is_empty(list)
    /\ is_none(list.free.head) <=> is_none(list.free.tail)
    /\ is_none(list.free.tail) <=> (len(list) = capacity(list))

\* the last element has been removed from a list of two slots
C37_Witness ==
    /\ last.op \in RemoveOps
    /\ is_empty(list)
    /\ is_none(first_index(list))
    /\ is_some(list.free.head)
    /\ capacity(list) = 2

\* ------------------------------------------------------------------ C38
\* insert_last on a full list of MaxCap slots: lists of one more slot, where
\* trim_swap has two elements to move
InsertLastGrown ==
    \E v \in Vals :
        /\ Running
        /\ capacity(list) = MaxCap /\ is_none(list.free.head)
        /\ LET res == insert_last(list, v)
           IN  /\ list' = res.l
               /\ last' = Call("insert_last", None, v, res.r)
        /\ UNCHANGED <<other, fault, it, hist>>

NextTrimSwap ==
    \/ InsertFirst \/ InsertLast \/ InsertBefore \/ InsertAfter \/ InsertLastGrown
    \/ Remove \/ TrimSwap

SpecTrimSwap == Init /\ [][NextTrimSwap]_vars

\* C38: trim_swap() keeps the order of the list: the element values read by a
\* forward traversal from first_index() are the same before and after the
\* call, for every pattern of free slots (the moved element being the head,
\* the tail, the only element, or next to another moved element).
C38_TrimSwapKeepsOrder ==
    [][(last'.op = "trim_swap") =>
           /\ Values(list') = Values(list)
           /\ fault' = "none"]_vars

\* trim_swap has moved two elements, now the head and the tail of the list
C38_Witness ==
    /\ last.op = "trim_swap"
    /\ last.b = 2
    /\ len(list) = 2
    /\ Values(list) = <<1, 2>>

\* ------------------------------------------------------------------ C39
\* the index a removal frees
Removed ==
    IF last'.op = "remove" THEN last'.a
    ELSE IF last'.op = "remove_first" THEN first_index(list)
    ELSE last_index(list)

\* the slots free before and after the step are in the same order in both
\* free lists
FreeOrderKept ==
    LET f == FreeWalk(list)
        g == FreeWalk(list')
    IN  \A i, j \in DOMAIN f :
            (i < j /\ f[i] \in SeqSet(g) /\ f[j] \in SeqSet(g)) =>
                \A m, n \in DOMAIN g : (g[m] = f[i] /\ g[n] = f[j]) => m < n

\* C39: free slots are reused first in, first out: a removal appends the slot
\* to the tail of the free list, an insertion with a free slot takes the head
\* of the free list, the slot freed earliest, and no operation reorders the
\* free slots; so an index removed while no other slot is free is returned by
\* the next insertion and then refers to the new element.
C39_FreeSlotsFifo ==
    [][/\ (last'.op \in RemoveOps /\ last'.ret # Nil /\ fault' = "none") =>
              FreeWalk(list') = Append(FreeWalk(list), Removed)
       /\ (last'.op \in InsertOps /\ FreeWalk(list) # <<>> /\ fault' = "none") =>
              /\ last'.ret = Head(FreeWalk(list))
              /\ FreeWalk(list') = Tail(FreeWalk(list))
              /\ get(list', last'.ret) = last'.b
       /\ (fault' = "none") => FreeOrderKept]_vars

\* an insertion has reused the slot freed first while another slot, freed
\* later and with a lower slot number, stays free
C39_Witness ==
    /\ last.op \in InsertOps
    /\ last.ret = ListIndexFrom(1)
    /\ FreeWalk(list) = <<ListIndexFrom(0)>>

\* ------------------------------------------------- ListDrainIter size_hint
\* an upper bound of None in a size hint <<lower, upper>>
Unbounded == -1

\* impl Iterator for ListDrainIter defines next() only: size_hint() is the
\* trait's default, (0, None)
ListDrainIter_size_hint(L) == <<0, Unbounded>>

DrainSizeHint ==
    /\ Alive /\ it.kind = "drain"
    /\ last' = Call("drain_size_hint", None, None, ListDrainIter_size_hint(list))
    /\ UNCHANGED <<list, other, fault, it, hist>>

\* impl ExactSizeIterator for ListDrainIter {}: len() is the trait's default,
\* which asserts that the upper bound is Some(lower) and returns lower
DrainLen ==
    /\ Alive /\ it.kind = "drain"
    /\ LET hint == ListDrainIter_size_hint(list)
       IN  IF hint[2] # hint[1]
           THEN /\ fault' = "panic"
                /\ last' = Call("drain_len", None, None, Nil)
           ELSE /\ last' = Call("drain_len", None, None, hint[1])
                /\ UNCHANGED fault
    /\ UNCHANGED <<list, other, it, hist>>

NextDrainHint ==
    \/ InsertFirst \/ InsertLast \/ InsertBefore \/ InsertAfter \/ Remove
    \/ DrainIter \/ DrainNext \/ DrainNextBack \/ DrainDrop
    \/ DrainSizeHint \/ DrainLen

SpecDrainHint == Init /\ [][NextDrainHint]_vars

\* C40: ListDrainIter, declared an ExactSizeIterator, reports through
\* size_hint() a lower bound equal to its upper bound equal to the number of
\* elements still in the list at every point of the drain, so that len() is
\* exact and its assertion never fails.
C40_DrainSizeHintExact ==
    /\ (it.kind = "drain") =>
           ListDrainIter_size_hint(list) = <<len(list), len(list)>>
    /\ (last.op = "drain_size_hint") => last.ret = <<len(list), len(list)>>
    /\ (last.op = "drain_len") => (fault = "none" /\ last.ret = len(list))

====
